---- MODULE Spec2Model ----
(***************************************************************************)
(* Model of the trading_bot command line tool: the validators              *)
(* (bot/validators.py), the order submitter and summary extractor          *)
(* (bot/orders.py), the cached client (bot/client.py) and the entry point  *)
(* (cli.py).                                                               *)
(*                                                                         *)
(* Python strings that the code inspects character by character are        *)
(* sequences of code points; Python values are tagged records.             *)
(***************************************************************************)
EXTENDS Integers, Sequences, FiniteSets, TLC

VARIABLES
    mode,              \* which harness drives the functions: "main", "symbol", "number", "extract"
    pc,                \* position inside main (or inside the pure-function harness)
    argv,              \* the parsed command line of the current run of main
    runs,              \* how many runs of main this process has started
    moduleName,        \* __name__ of cli.py: "__main__" run as a script, "cli" imported
    loggingConfigured, \* logging.getLogger().handlers is non-empty
    client_instance,   \* bot/client.py _client_instance (0 is None)
    constructCount,    \* how many UMFutures objects were constructed
    getLog,            \* one record per get_client call of this process
    locals,            \* main's local variables
    calls,             \* the remote calls of the current run, in order
    infoOutcome,       \* what client.exchange_info did in this run
    orderOutcome,      \* what client.new_order did in this run
    placeResult,       \* what place_futures_order returned or raised
    stdout,            \* the summary printed by main
    stderr,            \* the lines written to stderr in the current run, in order
    logFile,           \* the records appended to bot.log in the current run
    ret,               \* how the run of main ended
    fin,               \* pure-function harness: the input
    fout,              \* pure-function harness: the result
    fout2              \* pure-function harness: the second result

vars == <<mode, pc, argv, runs, moduleName, loggingConfigured, client_instance,
          constructCount, getLog, locals, calls, infoOutcome, orderOutcome,
          placeResult, stdout, stderr, logFile, ret, fin, fout, fout2>>

mainVars == <<argv, runs, moduleName, loggingConfigured, client_instance,
              constructCount, getLog, locals, calls, infoOutcome,
              orderOutcome, placeResult, stdout, stderr, logFile, ret>>

(***************************************************************************)
(* Bounds of the model.                                                    *)
(***************************************************************************)
MaxBody == 21      \* longest run of letters in a generated symbol
MaxPad == 1        \* most blanks on either side of a generated input
MaxMid == 2        \* length of the free part of a generated symbol
MaxNumLen == 3     \* length of the exhaustively generated numeric strings
MaxRuns == 2       \* runs of main within one process

(***************************************************************************)
(* Python values.                                                          *)
(***************************************************************************)
\* A float: finite decimal digits (integer part ip, fraction fp), nan or inf.
Num(k, neg, ip, fp) == [k |-> k, neg |-> neg, ip |-> ip, fp |-> fp]
Zero == Num("fin", FALSE, <<>>, <<>>)
NaN == Num("nan", FALSE, <<>>, <<>>)
Inf(neg) == Num("inf", neg, <<>>, <<>>)

PyNone == [t |-> "none", s |-> <<>>, v |-> Zero]
PyStr(s) == [t |-> "str", s |-> s, v |-> Zero]
PyNum(v) == [t |-> "num", s |-> <<>>, v |-> v]

AllZero(d) == \A i \in DOMAIN d : d[i] = 0

IsZeroNum(v) == v.k = "fin" /\ AllZero(v.ip) /\ AllZero(v.fp)

\* bool(x) as Python computes it for None, str and float
Truthy(x) ==
    CASE x.t = "none" -> FALSE
      [] x.t = "str" -> x.s # <<>>
      [] OTHER -> ~IsZeroNum(x.v)

(***************************************************************************)
(* Characters and str.strip, str.upper, str.isalnum.  A character is its   *)
(* Unicode code point; Str writes a string of ASCII characters.  The       *)
(* tables are those of the Unicode database of the interpreter.  The       *)
(* double quote, the backslash and the grave accent have no entry.         *)
(***************************************************************************)
Ascii == <<" ","!","","#","$","%","&","'","(",")","*","+",",","-",".","/",
           "0","1","2","3","4","5","6","7","8","9",":",";","<","=",">","?",
           "@","A","B","C","D","E","F","G","H","I","J","K","L","M","N","O",
           "P","Q","R","S","T","U","V","W","X","Y","Z","[","","]","^","_",
           "","a","b","c","d","e","f","g","h","i","j","k","l","m","n","o",
           "p","q","r","s","t","u","v","w","x","y","z","{","|","}","~">>

\* ord(c) of an ASCII character
Ord(c) ==
    CASE c = "\t" -> 9
      [] c = "\n" -> 10
      [] c = "\r" -> 13
      [] OTHER -> 31 + CHOOSE i \in DOMAIN Ascii : Ascii[i] = c

Str(s) == [i \in DOMAIN s |-> Ord(s[i])]

\* how many of b[lo..hi] are true before the first that is false,
\* and how many after the last that is false
RECURSIVE LeadTrue(_, _, _)
LeadTrue(b, lo, hi) ==
    IF lo > hi THEN 0
    ELSE IF lo = hi THEN (IF b[lo] THEN 1 ELSE 0)
    ELSE LET mid == (lo + hi) \div 2
             l == LeadTrue(b, lo, mid) IN
         IF l = mid - lo + 1 THEN l + LeadTrue(b, mid + 1, hi) ELSE l

RECURSIVE TrailTrue(_, _, _)
TrailTrue(b, lo, hi) ==
    IF lo > hi THEN 0
    ELSE IF lo = hi THEN (IF b[lo] THEN 1 ELSE 0)
    ELSE LET mid == (lo + hi) \div 2
             r == TrailTrue(b, mid + 1, hi) IN
         IF r = hi - mid THEN r + TrailTrue(b, lo, mid) ELSE r

\* how many elements at the front (at the back) of b are true
LeadCount(b) == LeadTrue(b, 1, Len(b))
TrailCount(b) == TrailTrue(b, 1, Len(b))

\* for each element of s, whether it is in set
In(s, set) == [i \in DOMAIN s |-> s[i] \in set]

SpaceChars ==
    {9, 10, 11, 12, 13, 28, 29, 30, 31, 32, 133, 160, 5760, 8192, 8193, 8194, 8195, 8196, 8197, 8198, 8199, 8200, 8201, 8202, 8232, 8233, 8239, 8287, 12288}

FloatSpaceChars ==
    {9, 10, 11, 12, 13, 32, 133, 160, 5760, 8192, 8193, 8194, 8195, 8196, 8197, 8198, 8199, 8200, 8201, 8202, 8232, 8233, 8239, 8287, 12288}

DecimalZeros ==
    {48, 1632, 1776, 1984, 2406, 2534, 2662, 2790, 2918, 3046, 3174, 3302,
     3430, 3558, 3664, 3792, 3872, 4160, 4240, 6112, 6160, 6470, 6608, 6784,
     6800, 6992, 7088, 7232, 7248, 42528, 43216, 43264, 43472, 43504, 43600,
     44016, 65296, 66720, 68912, 69734, 69872, 69942, 70096, 70384, 70736,
     70864, 71248, 71360, 71472, 71904, 72016, 72784, 73040, 73120, 92768,
     92864, 93008, 120782, 120792, 120802, 120812, 120822, 123200, 123632,
     125264, 130032}

AlnumRanges ==
    {<<170,170>>, <<178,179>>, <<181,181>>, <<185,186>>, <<188,190>>,
     <<192,214>>, <<216,246>>, <<248,705>>, <<710,721>>, <<736,740>>,
     <<748,748>>, <<750,750>>, <<880,884>>, <<886,887>>, <<890,893>>,
     <<895,895>>, <<902,902>>, <<904,906>>, <<908,908>>, <<910,929>>,
     <<931,1013>>, <<1015,1153>>, <<1162,1327>>, <<1329,1366>>, <<1369,1369>>,
     <<1376,1416>>, <<1488,1514>>, <<1519,1522>>, <<1568,1610>>, <<1632,1641>>,
     <<1646,1647>>, <<1649,1747>>, <<1749,1749>>, <<1765,1766>>, <<1774,1788>>,
     <<1791,1791>>, <<1808,1808>>, <<1810,1839>>, <<1869,1957>>, <<1969,1969>>,
     <<1984,2026>>, <<2036,2037>>, <<2042,2042>>, <<2048,2069>>, <<2074,2074>>,
     <<2084,2084>>, <<2088,2088>>, <<2112,2136>>, <<2144,2154>>, <<2160,2183>>,
     <<2185,2190>>, <<2208,2249>>, <<2308,2361>>, <<2365,2365>>, <<2384,2384>>,
     <<2392,2401>>, <<2406,2415>>, <<2417,2432>>, <<2437,2444>>, <<2447,2448>>,
     <<2451,2472>>, <<2474,2480>>, <<2482,2482>>, <<2486,2489>>, <<2493,2493>>,
     <<2510,2510>>, <<2524,2525>>, <<2527,2529>>, <<2534,2545>>, <<2548,2553>>,
     <<2556,2556>>, <<2565,2570>>, <<2575,2576>>, <<2579,2600>>, <<2602,2608>>,
     <<2610,2611>>, <<2613,2614>>, <<2616,2617>>, <<2649,2652>>, <<2654,2654>>,
     <<2662,2671>>, <<2674,2676>>, <<2693,2701>>, <<2703,2705>>, <<2707,2728>>,
     <<2730,2736>>, <<2738,2739>>, <<2741,2745>>, <<2749,2749>>, <<2768,2768>>,
     <<2784,2785>>, <<2790,2799>>, <<2809,2809>>, <<2821,2828>>, <<2831,2832>>,
     <<2835,2856>>, <<2858,2864>>, <<2866,2867>>, <<2869,2873>>, <<2877,2877>>,
     <<2908,2909>>, <<2911,2913>>, <<2918,2927>>, <<2929,2935>>, <<2947,2947>>,
     <<2949,2954>>, <<2958,2960>>, <<2962,2965>>, <<2969,2970>>, <<2972,2972>>,
     <<2974,2975>>, <<2979,2980>>, <<2984,2986>>, <<2990,3001>>, <<3024,3024>>,
     <<3046,3058>>, <<3077,3084>>, <<3086,3088>>, <<3090,3112>>, <<3114,3129>>,
     <<3133,3133>>, <<3160,3162>>, <<3165,3165>>, <<3168,3169>>, <<3174,3183>>,
     <<3192,3198>>, <<3200,3200>>, <<3205,3212>>, <<3214,3216>>, <<3218,3240>>,
     <<3242,3251>>, <<3253,3257>>, <<3261,3261>>, <<3293,3294>>, <<3296,3297>>,
     <<3302,3311>>, <<3313,3314>>, <<3332,3340>>, <<3342,3344>>, <<3346,3386>>,
     <<3389,3389>>, <<3406,3406>>, <<3412,3414>>, <<3416,3425>>, <<3430,3448>>,
     <<3450,3455>>, <<3461,3478>>, <<3482,3505>>, <<3507,3515>>, <<3517,3517>>,
     <<3520,3526>>, <<3558,3567>>, <<3585,3632>>, <<3634,3635>>, <<3648,3654>>,
     <<3664,3673>>, <<3713,3714>>, <<3716,3716>>, <<3718,3722>>, <<3724,3747>>,
     <<3749,3749>>, <<3751,3760>>, <<3762,3763>>, <<3773,3773>>, <<3776,3780>>,
     <<3782,3782>>, <<3792,3801>>, <<3804,3807>>, <<3840,3840>>, <<3872,3891>>,
     <<3904,3911>>, <<3913,3948>>, <<3976,3980>>, <<4096,4138>>, <<4159,4169>>,
     <<4176,4181>>, <<4186,4189>>, <<4193,4193>>, <<4197,4198>>, <<4206,4208>>,
     <<4213,4225>>, <<4238,4238>>, <<4240,4249>>, <<4256,4293>>, <<4295,4295>>,
     <<4301,4301>>, <<4304,4346>>, <<4348,4680>>, <<4682,4685>>, <<4688,4694>>,
     <<4696,4696>>, <<4698,4701>>, <<4704,4744>>, <<4746,4749>>, <<4752,4784>>,
     <<4786,4789>>, <<4792,4798>>, <<4800,4800>>, <<4802,4805>>, <<4808,4822>>,
     <<4824,4880>>, <<4882,4885>>, <<4888,4954>>, <<4969,4988>>, <<4992,5007>>,
     <<5024,5109>>, <<5112,5117>>, <<5121,5740>>, <<5743,5759>>, <<5761,5786>>,
     <<5792,5866>>, <<5870,5880>>, <<5888,5905>>, <<5919,5937>>, <<5952,5969>>,
     <<5984,5996>>, <<5998,6000>>, <<6016,6067>>, <<6103,6103>>, <<6108,6108>>,
     <<6112,6121>>, <<6128,6137>>, <<6160,6169>>, <<6176,6264>>, <<6272,6276>>,
     <<6279,6312>>, <<6314,6314>>, <<6320,6389>>, <<6400,6430>>, <<6470,6509>>,
     <<6512,6516>>, <<6528,6571>>, <<6576,6601>>, <<6608,6618>>, <<6656,6678>>,
     <<6688,6740>>, <<6784,6793>>, <<6800,6809>>, <<6823,6823>>, <<6917,6963>>,
     <<6981,6988>>, <<6992,7001>>, <<7043,7072>>, <<7086,7141>>, <<7168,7203>>,
     <<7232,7241>>, <<7245,7293>>, <<7296,7304>>, <<7312,7354>>, <<7357,7359>>,
     <<7401,7404>>, <<7406,7411>>, <<7413,7414>>, <<7418,7418>>, <<7424,7615>>,
     <<7680,7957>>, <<7960,7965>>, <<7968,8005>>, <<8008,8013>>, <<8016,8023>>,
     <<8025,8025>>, <<8027,8027>>, <<8029,8029>>, <<8031,8061>>, <<8064,8116>>,
     <<8118,8124>>, <<8126,8126>>, <<8130,8132>>, <<8134,8140>>, <<8144,8147>>,
     <<8150,8155>>, <<8160,8172>>, <<8178,8180>>, <<8182,8188>>, <<8304,8305>>,
     <<8308,8313>>, <<8319,8329>>, <<8336,8348>>, <<8450,8450>>, <<8455,8455>>,
     <<8458,8467>>, <<8469,8469>>, <<8473,8477>>, <<8484,8484>>, <<8486,8486>>,
     <<8488,8488>>, <<8490,8493>>, <<8495,8505>>, <<8508,8511>>, <<8517,8521>>,
     <<8526,8526>>, <<8528,8585>>, <<9312,9371>>, <<9450,9471>>,
     <<10102,10131>>, <<11264,11492>>, <<11499,11502>>, <<11506,11507>>,
     <<11517,11517>>, <<11520,11557>>, <<11559,11559>>, <<11565,11565>>,
     <<11568,11623>>, <<11631,11631>>, <<11648,11670>>, <<11680,11686>>,
     <<11688,11694>>, <<11696,11702>>, <<11704,11710>>, <<11712,11718>>,
     <<11720,11726>>, <<11728,11734>>, <<11736,11742>>, <<11823,11823>>,
     <<12293,12295>>, <<12321,12329>>, <<12337,12341>>, <<12344,12348>>,
     <<12353,12438>>, <<12445,12447>>, <<12449,12538>>, <<12540,12543>>,
     <<12549,12591>>, <<12593,12686>>, <<12690,12693>>, <<12704,12735>>,
     <<12784,12799>>, <<12832,12841>>, <<12872,12879>>, <<12881,12895>>,
     <<12928,12937>>, <<12977,12991>>, <<13312,19903>>, <<19968,42124>>,
     <<42192,42237>>, <<42240,42508>>, <<42512,42539>>, <<42560,42606>>,
     <<42623,42653>>, <<42656,42735>>, <<42775,42783>>, <<42786,42888>>,
     <<42891,42954>>, <<42960,42961>>, <<42963,42963>>, <<42965,42969>>,
     <<42994,43009>>, <<43011,43013>>, <<43015,43018>>, <<43020,43042>>,
     <<43056,43061>>, <<43072,43123>>, <<43138,43187>>, <<43216,43225>>,
     <<43250,43255>>, <<43259,43259>>, <<43261,43262>>, <<43264,43301>>,
     <<43312,43334>>, <<43360,43388>>, <<43396,43442>>, <<43471,43481>>,
     <<43488,43492>>, <<43494,43518>>, <<43520,43560>>, <<43584,43586>>,
     <<43588,43595>>, <<43600,43609>>, <<43616,43638>>, <<43642,43642>>,
     <<43646,43695>>, <<43697,43697>>, <<43701,43702>>, <<43705,43709>>,
     <<43712,43712>>, <<43714,43714>>, <<43739,43741>>, <<43744,43754>>,
     <<43762,43764>>, <<43777,43782>>, <<43785,43790>>, <<43793,43798>>,
     <<43808,43814>>, <<43816,43822>>, <<43824,43866>>, <<43868,43881>>,
     <<43888,44002>>, <<44016,44025>>, <<44032,55203>>, <<55216,55238>>,
     <<55243,55291>>, <<63744,64109>>, <<64112,64217>>, <<64256,64262>>,
     <<64275,64279>>, <<64285,64285>>, <<64287,64296>>, <<64298,64310>>,
     <<64312,64316>>, <<64318,64318>>, <<64320,64321>>, <<64323,64324>>,
     <<64326,64433>>, <<64467,64829>>, <<64848,64911>>, <<64914,64967>>,
     <<65008,65019>>, <<65136,65140>>, <<65142,65276>>, <<65296,65305>>,
     <<65313,65338>>, <<65345,65370>>, <<65382,65470>>, <<65474,65479>>,
     <<65482,65487>>, <<65490,65495>>, <<65498,65500>>, <<65536,65547>>,
     <<65549,65574>>, <<65576,65594>>, <<65596,65597>>, <<65599,65613>>,
     <<65616,65629>>, <<65664,65786>>, <<65799,65843>>, <<65856,65912>>,
     <<65930,65931>>, <<66176,66204>>, <<66208,66256>>, <<66273,66299>>,
     <<66304,66339>>, <<66349,66378>>, <<66384,66421>>, <<66432,66461>>,
     <<66464,66499>>, <<66504,66511>>, <<66513,66517>>, <<66560,66717>>,
     <<66720,66729>>, <<66736,66771>>, <<66776,66811>>, <<66816,66855>>,
     <<66864,66915>>, <<66928,66938>>, <<66940,66954>>, <<66956,66962>>,
     <<66964,66965>>, <<66967,66977>>, <<66979,66993>>, <<66995,67001>>,
     <<67003,67004>>, <<67072,67382>>, <<67392,67413>>, <<67424,67431>>,
     <<67456,67461>>, <<67463,67504>>, <<67506,67514>>, <<67584,67589>>,
     <<67592,67592>>, <<67594,67637>>, <<67639,67640>>, <<67644,67644>>,
     <<67647,67669>>, <<67672,67702>>, <<67705,67742>>, <<67751,67759>>,
     <<67808,67826>>, <<67828,67829>>, <<67835,67867>>, <<67872,67897>>,
     <<67968,68023>>, <<68028,68047>>, <<68050,68096>>, <<68112,68115>>,
     <<68117,68119>>, <<68121,68149>>, <<68160,68168>>, <<68192,68222>>,
     <<68224,68255>>, <<68288,68295>>, <<68297,68324>>, <<68331,68335>>,
     <<68352,68405>>, <<68416,68437>>, <<68440,68466>>, <<68472,68497>>,
     <<68521,68527>>, <<68608,68680>>, <<68736,68786>>, <<68800,68850>>,
     <<68858,68899>>, <<68912,68921>>, <<69216,69246>>, <<69248,69289>>,
     <<69296,69297>>, <<69376,69415>>, <<69424,69445>>, <<69457,69460>>,
     <<69488,69505>>, <<69552,69579>>, <<69600,69622>>, <<69635,69687>>,
     <<69714,69743>>, <<69745,69746>>, <<69749,69749>>, <<69763,69807>>,
     <<69840,69864>>, <<69872,69881>>, <<69891,69926>>, <<69942,69951>>,
     <<69956,69956>>, <<69959,69959>>, <<69968,70002>>, <<70006,70006>>,
     <<70019,70066>>, <<70081,70084>>, <<70096,70106>>, <<70108,70108>>,
     <<70113,70132>>, <<70144,70161>>, <<70163,70187>>, <<70272,70278>>,
     <<70280,70280>>, <<70282,70285>>, <<70287,70301>>, <<70303,70312>>,
     <<70320,70366>>, <<70384,70393>>, <<70405,70412>>, <<70415,70416>>,
     <<70419,70440>>, <<70442,70448>>, <<70450,70451>>, <<70453,70457>>,
     <<70461,70461>>, <<70480,70480>>, <<70493,70497>>, <<70656,70708>>,
     <<70727,70730>>, <<70736,70745>>, <<70751,70753>>, <<70784,70831>>,
     <<70852,70853>>, <<70855,70855>>, <<70864,70873>>, <<71040,71086>>,
     <<71128,71131>>, <<71168,71215>>, <<71236,71236>>, <<71248,71257>>,
     <<71296,71338>>, <<71352,71352>>, <<71360,71369>>, <<71424,71450>>,
     <<71472,71483>>, <<71488,71494>>, <<71680,71723>>, <<71840,71922>>,
     <<71935,71942>>, <<71945,71945>>, <<71948,71955>>, <<71957,71958>>,
     <<71960,71983>>, <<71999,71999>>, <<72001,72001>>, <<72016,72025>>,
     <<72096,72103>>, <<72106,72144>>, <<72161,72161>>, <<72163,72163>>,
     <<72192,72192>>, <<72203,72242>>, <<72250,72250>>, <<72272,72272>>,
     <<72284,72329>>, <<72349,72349>>, <<72368,72440>>, <<72704,72712>>,
     <<72714,72750>>, <<72768,72768>>, <<72784,72812>>, <<72818,72847>>,
     <<72960,72966>>, <<72968,72969>>, <<72971,73008>>, <<73030,73030>>,
     <<73040,73049>>, <<73056,73061>>, <<73063,73064>>, <<73066,73097>>,
     <<73112,73112>>, <<73120,73129>>, <<73440,73458>>, <<73648,73648>>,
     <<73664,73684>>, <<73728,74649>>, <<74752,74862>>, <<74880,75075>>,
     <<77712,77808>>, <<77824,78894>>, <<82944,83526>>, <<92160,92728>>,
     <<92736,92766>>, <<92768,92777>>, <<92784,92862>>, <<92864,92873>>,
     <<92880,92909>>, <<92928,92975>>, <<92992,92995>>, <<93008,93017>>,
     <<93019,93025>>, <<93027,93047>>, <<93053,93071>>, <<93760,93846>>,
     <<93952,94026>>, <<94032,94032>>, <<94099,94111>>, <<94176,94177>>,
     <<94179,94179>>, <<94208,100343>>, <<100352,101589>>, <<101632,101640>>,
     <<110576,110579>>, <<110581,110587>>, <<110589,110590>>,
     <<110592,110882>>, <<110928,110930>>, <<110948,110951>>,
     <<110960,111355>>, <<113664,113770>>, <<113776,113788>>,
     <<113792,113800>>, <<113808,113817>>, <<119520,119539>>,
     <<119648,119672>>, <<119808,119892>>, <<119894,119964>>,
     <<119966,119967>>, <<119970,119970>>, <<119973,119974>>,
     <<119977,119980>>, <<119982,119993>>, <<119995,119995>>,
     <<119997,120003>>, <<120005,120069>>, <<120071,120074>>,
     <<120077,120084>>, <<120086,120092>>, <<120094,120121>>,
     <<120123,120126>>, <<120128,120132>>, <<120134,120134>>,
     <<120138,120144>>, <<120146,120485>>, <<120488,120512>>,
     <<120514,120538>>, <<120540,120570>>, <<120572,120596>>,
     <<120598,120628>>, <<120630,120654>>, <<120656,120686>>,
     <<120688,120712>>, <<120714,120744>>, <<120746,120770>>,
     <<120772,120779>>, <<120782,120831>>, <<122624,122654>>,
     <<123136,123180>>, <<123191,123197>>, <<123200,123209>>,
     <<123214,123214>>, <<123536,123565>>, <<123584,123627>>,
     <<123632,123641>>, <<124896,124902>>, <<124904,124907>>,
     <<124909,124910>>, <<124912,124926>>, <<124928,125124>>,
     <<125127,125135>>, <<125184,125251>>, <<125259,125259>>,
     <<125264,125273>>, <<126065,126123>>, <<126125,126127>>,
     <<126129,126132>>, <<126209,126253>>, <<126255,126269>>,
     <<126464,126467>>, <<126469,126495>>, <<126497,126498>>,
     <<126500,126500>>, <<126503,126503>>, <<126505,126514>>,
     <<126516,126519>>, <<126521,126521>>, <<126523,126523>>,
     <<126530,126530>>, <<126535,126535>>, <<126537,126537>>,
     <<126539,126539>>, <<126541,126543>>, <<126545,126546>>,
     <<126548,126548>>, <<126551,126551>>, <<126553,126553>>,
     <<126555,126555>>, <<126557,126557>>, <<126559,126559>>,
     <<126561,126562>>, <<126564,126564>>, <<126567,126570>>,
     <<126572,126578>>, <<126580,126583>>, <<126585,126588>>,
     <<126590,126590>>, <<126592,126601>>, <<126603,126619>>,
     <<126625,126627>>, <<126629,126633>>, <<126635,126651>>,
     <<127232,127244>>, <<130032,130041>>, <<131072,173791>>,
     <<173824,177976>>, <<177984,178205>>, <<178208,183969>>,
     <<183984,191456>>, <<194560,195101>>, <<196608,201546>>}

UpperRanges ==
    {<<181,181,1,743>>, <<224,246,1,-32>>, <<248,254,1,-32>>,
     <<255,255,1,121>>, <<257,303,2,-1>>, <<305,305,1,-232>>, <<307,311,2,-1>>,
     <<314,328,2,-1>>, <<331,375,2,-1>>, <<378,382,2,-1>>, <<383,383,1,-300>>,
     <<384,384,1,195>>, <<387,389,2,-1>>, <<392,392,1,-1>>, <<396,396,1,-1>>,
     <<402,402,1,-1>>, <<405,405,1,97>>, <<409,409,1,-1>>, <<410,410,1,163>>,
     <<414,414,1,130>>, <<417,421,2,-1>>, <<424,424,1,-1>>, <<429,429,1,-1>>,
     <<432,432,1,-1>>, <<436,438,2,-1>>, <<441,441,1,-1>>, <<445,445,1,-1>>,
     <<447,447,1,56>>, <<453,453,1,-1>>, <<454,454,1,-2>>, <<456,456,1,-1>>,
     <<457,457,1,-2>>, <<459,459,1,-1>>, <<460,460,1,-2>>, <<462,476,2,-1>>,
     <<477,477,1,-79>>, <<479,495,2,-1>>, <<498,498,1,-1>>, <<499,499,1,-2>>,
     <<501,501,1,-1>>, <<505,543,2,-1>>, <<547,563,2,-1>>, <<572,572,1,-1>>,
     <<575,576,1,10815>>, <<578,578,1,-1>>, <<583,591,2,-1>>,
     <<592,592,1,10783>>, <<593,593,1,10780>>, <<594,594,1,10782>>,
     <<595,595,1,-210>>, <<596,596,1,-206>>, <<598,599,1,-205>>,
     <<601,601,1,-202>>, <<603,603,1,-203>>, <<604,604,1,42319>>,
     <<608,608,1,-205>>, <<609,609,1,42315>>, <<611,611,1,-207>>,
     <<613,613,1,42280>>, <<614,614,1,42308>>, <<616,616,1,-209>>,
     <<617,617,1,-211>>, <<618,618,1,42308>>, <<619,619,1,10743>>,
     <<620,620,1,42305>>, <<623,623,1,-211>>, <<625,625,1,10749>>,
     <<626,626,1,-213>>, <<629,629,1,-214>>, <<637,637,1,10727>>,
     <<640,640,1,-218>>, <<642,642,1,42307>>, <<643,643,1,-218>>,
     <<647,647,1,42282>>, <<648,648,1,-218>>, <<649,649,1,-69>>,
     <<650,651,1,-217>>, <<652,652,1,-71>>, <<658,658,1,-219>>,
     <<669,669,1,42261>>, <<670,670,1,42258>>, <<837,837,1,84>>,
     <<881,883,2,-1>>, <<887,887,1,-1>>, <<891,893,1,130>>, <<940,940,1,-38>>,
     <<941,943,1,-37>>, <<945,961,1,-32>>, <<962,962,1,-31>>,
     <<963,971,1,-32>>, <<972,972,1,-64>>, <<973,974,1,-63>>,
     <<976,976,1,-62>>, <<977,977,1,-57>>, <<981,981,1,-47>>,
     <<982,982,1,-54>>, <<983,983,1,-8>>, <<985,1007,2,-1>>,
     <<1008,1008,1,-86>>, <<1009,1009,1,-80>>, <<1010,1010,1,7>>,
     <<1011,1011,1,-116>>, <<1013,1013,1,-96>>, <<1016,1016,1,-1>>,
     <<1019,1019,1,-1>>, <<1072,1103,1,-32>>, <<1104,1119,1,-80>>,
     <<1121,1153,2,-1>>, <<1163,1215,2,-1>>, <<1218,1230,2,-1>>,
     <<1231,1231,1,-15>>, <<1233,1327,2,-1>>, <<1377,1414,1,-48>>,
     <<4304,4346,1,3008>>, <<4349,4351,1,3008>>, <<5112,5117,1,-8>>,
     <<7296,7296,1,-6254>>, <<7297,7297,1,-6253>>, <<7298,7298,1,-6244>>,
     <<7299,7300,1,-6242>>, <<7301,7301,1,-6243>>, <<7302,7302,1,-6236>>,
     <<7303,7303,1,-6181>>, <<7304,7304,1,35266>>, <<7545,7545,1,35332>>,
     <<7549,7549,1,3814>>, <<7566,7566,1,35384>>, <<7681,7829,2,-1>>,
     <<7835,7835,1,-59>>, <<7841,7935,2,-1>>, <<7936,7943,1,8>>,
     <<7952,7957,1,8>>, <<7968,7975,1,8>>, <<7984,7991,1,8>>,
     <<8000,8005,1,8>>, <<8017,8023,2,8>>, <<8032,8039,1,8>>,
     <<8048,8049,1,74>>, <<8050,8053,1,86>>, <<8054,8055,1,100>>,
     <<8056,8057,1,128>>, <<8058,8059,1,112>>, <<8060,8061,1,126>>,
     <<8112,8113,1,8>>, <<8126,8126,1,-7205>>, <<8144,8145,1,8>>,
     <<8160,8161,1,8>>, <<8165,8165,1,7>>, <<8526,8526,1,-28>>,
     <<8560,8575,1,-16>>, <<8580,8580,1,-1>>, <<9424,9449,1,-26>>,
     <<11312,11359,1,-48>>, <<11361,11361,1,-1>>, <<11365,11365,1,-10795>>,
     <<11366,11366,1,-10792>>, <<11368,11372,2,-1>>, <<11379,11379,1,-1>>,
     <<11382,11382,1,-1>>, <<11393,11491,2,-1>>, <<11500,11502,2,-1>>,
     <<11507,11507,1,-1>>, <<11520,11557,1,-7264>>, <<11559,11559,1,-7264>>,
     <<11565,11565,1,-7264>>, <<42561,42605,2,-1>>, <<42625,42651,2,-1>>,
     <<42787,42799,2,-1>>, <<42803,42863,2,-1>>, <<42874,42876,2,-1>>,
     <<42879,42887,2,-1>>, <<42892,42892,1,-1>>, <<42897,42899,2,-1>>,
     <<42900,42900,1,48>>, <<42903,42921,2,-1>>, <<42933,42947,2,-1>>,
     <<42952,42954,2,-1>>, <<42961,42961,1,-1>>, <<42967,42969,2,-1>>,
     <<42998,42998,1,-1>>, <<43859,43859,1,-928>>, <<43888,43967,1,-38864>>,
     <<65345,65370,1,-32>>, <<66600,66639,1,-40>>, <<66776,66811,1,-40>>,
     <<66967,66977,1,-39>>, <<66979,66993,1,-39>>, <<66995,67001,1,-39>>,
     <<67003,67004,1,-39>>, <<68800,68850,1,-64>>, <<71872,71903,1,-32>>,
     <<93792,93823,1,-32>>, <<125218,125251,1,-34>>}

UpperSpecial ==
    {<<223,<<83,83>>>>, <<329,<<700,78>>>>, <<496,<<74,780>>>>,
     <<912,<<921,776,769>>>>, <<944,<<933,776,769>>>>, <<1415,<<1333,1362>>>>,
     <<7830,<<72,817>>>>, <<7831,<<84,776>>>>, <<7832,<<87,778>>>>,
     <<7833,<<89,778>>>>, <<7834,<<65,702>>>>, <<8016,<<933,787>>>>,
     <<8018,<<933,787,768>>>>, <<8020,<<933,787,769>>>>,
     <<8022,<<933,787,834>>>>, <<8064,<<7944,921>>>>, <<8065,<<7945,921>>>>,
     <<8066,<<7946,921>>>>, <<8067,<<7947,921>>>>, <<8068,<<7948,921>>>>,
     <<8069,<<7949,921>>>>, <<8070,<<7950,921>>>>, <<8071,<<7951,921>>>>,
     <<8072,<<7944,921>>>>, <<8073,<<7945,921>>>>, <<8074,<<7946,921>>>>,
     <<8075,<<7947,921>>>>, <<8076,<<7948,921>>>>, <<8077,<<7949,921>>>>,
     <<8078,<<7950,921>>>>, <<8079,<<7951,921>>>>, <<8080,<<7976,921>>>>,
     <<8081,<<7977,921>>>>, <<8082,<<7978,921>>>>, <<8083,<<7979,921>>>>,
     <<8084,<<7980,921>>>>, <<8085,<<7981,921>>>>, <<8086,<<7982,921>>>>,
     <<8087,<<7983,921>>>>, <<8088,<<7976,921>>>>, <<8089,<<7977,921>>>>,
     <<8090,<<7978,921>>>>, <<8091,<<7979,921>>>>, <<8092,<<7980,921>>>>,
     <<8093,<<7981,921>>>>, <<8094,<<7982,921>>>>, <<8095,<<7983,921>>>>,
     <<8096,<<8040,921>>>>, <<8097,<<8041,921>>>>, <<8098,<<8042,921>>>>,
     <<8099,<<8043,921>>>>, <<8100,<<8044,921>>>>, <<8101,<<8045,921>>>>,
     <<8102,<<8046,921>>>>, <<8103,<<8047,921>>>>, <<8104,<<8040,921>>>>,
     <<8105,<<8041,921>>>>, <<8106,<<8042,921>>>>, <<8107,<<8043,921>>>>,
     <<8108,<<8044,921>>>>, <<8109,<<8045,921>>>>, <<8110,<<8046,921>>>>,
     <<8111,<<8047,921>>>>, <<8114,<<8122,921>>>>, <<8115,<<913,921>>>>,
     <<8116,<<902,921>>>>, <<8118,<<913,834>>>>, <<8119,<<913,834,921>>>>,
     <<8124,<<913,921>>>>, <<8130,<<8138,921>>>>, <<8131,<<919,921>>>>,
     <<8132,<<905,921>>>>, <<8134,<<919,834>>>>, <<8135,<<919,834,921>>>>,
     <<8140,<<919,921>>>>, <<8146,<<921,776,768>>>>, <<8147,<<921,776,769>>>>,
     <<8150,<<921,834>>>>, <<8151,<<921,776,834>>>>, <<8162,<<933,776,768>>>>,
     <<8163,<<933,776,769>>>>, <<8164,<<929,787>>>>, <<8166,<<933,834>>>>,
     <<8167,<<933,776,834>>>>, <<8178,<<8186,921>>>>, <<8179,<<937,921>>>>,
     <<8180,<<911,921>>>>, <<8182,<<937,834>>>>, <<8183,<<937,834,921>>>>,
     <<8188,<<937,921>>>>, <<64256,<<70,70>>>>, <<64257,<<70,73>>>>,
     <<64258,<<70,76>>>>, <<64259,<<70,70,73>>>>, <<64260,<<70,70,76>>>>,
     <<64261,<<83,84>>>>, <<64262,<<83,84>>>>, <<64275,<<1348,1350>>>>,
     <<64276,<<1348,1333>>>>, <<64277,<<1348,1339>>>>, <<64278,<<1358,1350>>>>,
     <<64279,<<1348,1341>>>>}

\* s without the white space at its two ends
Strip(s) ==
    SubSeq(s, LeadCount(In(s, SpaceChars)) + 1,
           Len(s) - TrailCount(In(s, SpaceChars)))

\* the upper-case mapping of one character: some characters map to two or
\* three (the sharp s to SS)
UpperChar(c) ==
    IF c < 128 THEN (IF c \in 97..122 THEN <<c - 32>> ELSE <<c>>)
    ELSE IF \E p \in UpperSpecial : p[1] = c
    THEN (CHOOSE p \in UpperSpecial : p[1] = c)[2]
    ELSE IF \E r \in UpperRanges : r[1] <= c /\ c <= r[2] /\ (c - r[1]) % r[3] = 0
    THEN <<c + (CHOOSE r \in UpperRanges :
                    r[1] <= c /\ c <= r[2] /\ (c - r[1]) % r[3] = 0)[4]>>
    ELSE <<c>>

RECURSIVE Upper(_)
Upper(s) ==
    IF s = <<>> THEN <<>>
    ELSE IF Len(s) = 1 THEN UpperChar(s[1])
    ELSE Upper(SubSeq(s, 1, Len(s) \div 2)) \o Upper(SubSeq(s, Len(s) \div 2 + 1, Len(s)))

\* ASCII lower case, as float() compares the words nan, inf and infinity
Lower(s) == [i \in DOMAIN s |-> IF s[i] \in 65..90 THEN s[i] + 32 ELSE s[i]]

IsAlnumChar(c) ==
    IF c < 128 THEN c \in (48..57) \cup (65..90) \cup (97..122)
    ELSE \E r \in AlnumRanges : r[1] <= c /\ c <= r[2]

IsAlnum(s) == s # <<>> /\ \A i \in DOMAIN s : IsAlnumChar(s[i])

(***************************************************************************)
(* Results: a returned value or a raised exception.                        *)
(***************************************************************************)
Ok(val) == [ok |-> TRUE, val |-> val, err |-> "", msg |-> "", cause |-> ""]
Raise(err, msg) == [ok |-> FALSE, val |-> PyNone, err |-> err, msg |-> msg, cause |-> ""]
\* raise err(msg) from cause
RaiseFrom(err, msg, cause) ==
    [ok |-> FALSE, val |-> PyNone, err |-> err, msg |-> msg, cause |-> cause]

(***************************************************************************)
(* Exceptions are named by their class.  An except clause catches the      *)
(* instances of its class and of the subclasses of that class.             *)
(***************************************************************************)
\* the direct base classes of a class: the built-in hierarchy, asyncio's
\* CancelledError and ValidationError (validators.py:10).  A class that is
\* not listed is one a library or an application defines: it derives from
\* Exception, as those of binance.error do.
Bases(c) ==
    CASE c = "BaseException" -> {}
      [] c \in {"BaseExceptionGroup", "GeneratorExit", "KeyboardInterrupt",
                "SystemExit", "CancelledError", "Exception"} -> {"BaseException"}
      [] c = "ExceptionGroup" -> {"BaseExceptionGroup", "Exception"}
      [] c \in {"FloatingPointError", "OverflowError", "ZeroDivisionError"} ->
             {"ArithmeticError"}
      [] c = "ModuleNotFoundError" -> {"ImportError"}
      [] c \in {"IndexError", "KeyError"} -> {"LookupError"}
      [] c = "UnboundLocalError" -> {"NameError"}
      [] c \in {"BlockingIOError", "ChildProcessError", "ConnectionError",
                "FileExistsError", "FileNotFoundError", "InterruptedError",
                "IsADirectoryError", "NotADirectoryError", "PermissionError",
                "ProcessLookupError", "TimeoutError"} -> {"OSError"}
      [] c \in {"BrokenPipeError", "ConnectionAbortedError",
                "ConnectionRefusedError", "ConnectionResetError"} ->
             {"ConnectionError"}
      [] c \in {"NotImplementedError", "RecursionError"} -> {"RuntimeError"}
      [] c = "IndentationError" -> {"SyntaxError"}
      [] c = "TabError" -> {"IndentationError"}
      [] c \in {"UnicodeError", "ValidationError"} -> {"ValueError"}
      [] c \in {"UnicodeDecodeError", "UnicodeEncodeError",
                "UnicodeTranslateError"} -> {"UnicodeError"}
      [] c \in {"DeprecationWarning", "PendingDeprecationWarning",
                "RuntimeWarning", "SyntaxWarning", "UserWarning", "FutureWarning",
                "ImportWarning", "UnicodeWarning", "BytesWarning",
                "EncodingWarning", "ResourceWarning"} -> {"Warning"}
      [] OTHER -> {"Exception"}

\* isinstance(e, cls) for an instance e of class c
RECURSIVE IsInstance(_, _)
IsInstance(c, cls) == c = cls \/ \E b \in Bases(c) : IsInstance(b, cls)

(***************************************************************************)
(* Logging.  A function's result lists, in order, the records its logger   *)
(* calls make; what becomes of them is up to the handlers installed.       *)
(***************************************************************************)
\* a log record: the logger's name, the level, the message (its format
\* string), the exception it reports ("" when none) and whether the
\* traceback follows it (logger.exception)
Record(name, level, msg, exc, trace) ==
    [name |-> name, level |-> level, msg |-> msg, exc |-> exc, trace |-> trace]

\* the console handler passes the records of level INFO and above
Console(records) == SelectSeq(records, LAMBDA r : r.level # "DEBUG")

(***************************************************************************)
(* bot/validators.py                                                       *)
(***************************************************************************)
SymMinLen == 6
SymMaxLen == 20

\* lines 24-30: the checks on the normalized symbol
CheckedSymbol(s) ==
    IF Len(s) < SymMinLen \/ Len(s) > SymMaxLen
    THEN Raise("ValidationError", "Symbol length looks invalid")
    ELSE IF ~IsAlnum(s)
    THEN Raise("ValidationError", "Symbol must be alphanumeric")
    ELSE Ok(PyStr(s))

validate_symbol_format_nolower(symbol) ==
    IF ~Truthy(symbol) \/ symbol.t # "str"
    THEN Raise("ValidationError", "Symbol must be a non-empty string.")
    ELSE LET s == Upper(Strip(symbol.s)) IN
         IF Len(s) > SymMaxLen
         THEN Raise("ValidationError", "Symbol length looks invalid")
         ELSE IF ~IsAlnum(s)
         THEN Raise("ValidationError", "Symbol must be alphanumeric")
         ELSE Ok(PyStr(s))

validate_symbol_format(symbol) ==
    IF ~Truthy(symbol) \/ symbol.t # "str"
    THEN Raise("ValidationError", "Symbol must be a non-empty string.")
    ELSE CheckedSymbol(Upper(Strip(symbol.s)))

validate_side(side) ==
    IF ~Truthy(side)
    THEN Raise("ValidationError", "Side is required (BUY or SELL).")
    ELSE IF side.t # "str"
    THEN Raise("AttributeError", "object has no attribute 'strip'")
    ELSE LET s == Upper(Strip(side.s)) IN
         IF s \notin {Str(<<"B","U","Y">>), Str(<<"S","E","L","L">>)}
         THEN Raise("ValidationError", "Side must be either BUY or SELL.")
         ELSE Ok(PyStr(s))

MARKET == Str(<<"M","A","R","K","E","T">>)
LIMIT == Str(<<"L","I","M","I","T">>)

validate_order_type(order_type) ==
    IF ~Truthy(order_type)
    THEN Raise("ValidationError", "Order type is required (MARKET or LIMIT).")
    ELSE IF order_type.t # "str"
    THEN Raise("AttributeError", "object has no attribute 'strip'")
    ELSE LET s == Upper(Strip(order_type.s)) IN
         IF s \notin {MARKET, LIMIT}
         THEN Raise("ValidationError", "Order type must be either MARKET or LIMIT.")
         ELSE Ok(PyStr(s))

(***************************************************************************)
(* float(x): the conversion validate_quantity and validate_price apply.    *)
(* The literal is read as a decimal and rounded to the nearest double      *)
(* (ties to even, subnormals, overflow to inf, underflow to zero); the     *)
(* value is kept as the exact decimal expansion of that double.            *)
(***************************************************************************)
IsDigit(c) == \E z \in DecimalZeros : z <= c /\ c <= z + 9
DigitVal(c) == c - (CHOOSE z \in DecimalZeros : z <= c /\ c <= z + 9)

Underscore == 95
Minus == 45
Dot == 46

\* a digit group of a float literal: digits, single underscores between them
DigitRunOk(d) ==
    /\ d # <<>>
    /\ \A i \in DOMAIN d : IsDigit(d[i]) \/ d[i] = Underscore
    /\ IsDigit(d[1]) /\ IsDigit(d[Len(d)])
    /\ \A i \in 1..(Len(d) - 1) : ~(d[i] = Underscore /\ d[i + 1] = Underscore)

ToDigits(d) ==
    LET ds == SelectSeq(d, LAMBDA c : c # Underscore) IN
    [i \in DOMAIN ds |-> DigitVal(ds[i])]

RECURSIVE DigitsToInt(_)
DigitsToInt(d) ==
    IF d = <<>> THEN 0 ELSE 10 * DigitsToInt(SubSeq(d, 1, Len(d) - 1)) + d[Len(d)]

\* position of the first character of s that is in set, 0 when there is none
FirstIn(s, set) ==
    IF \A i \in DOMAIN s : s[i] \notin set THEN 0
    ELSE CHOOSE i \in DOMAIN s : s[i] \in set /\ \A j \in 1..(i - 1) : s[j] \notin set

Zeros(n) == [i \in 1..n |-> 0]
Max(a, b) == IF a >= b THEN a ELSE b

DropLeadingZeros(d) == SubSeq(d, LeadCount(In(d, {0})) + 1, Len(d))
DropTrailingZeros(d) == SubSeq(d, 1, Len(d) - TrailCount(In(d, {0})))

\* a non-negative decimal: integer digits ip, fraction digits fp
Dec(ip, fp) == [ip |-> DropLeadingZeros(ip), fp |-> DropTrailingZeros(fp)]

\* the digits d with the point after the first n of them
DecAt(d, n) == Dec(SubSeq(d, 1, n), SubSeq(d, n + 1, Len(d)))

\* ip.fp times 10^x
Scale(ip, fp, x) ==
    IF x >= 0
    THEN DecAt(ip \o fp \o Zeros(Max(0, x - Len(fp))), Len(ip) + x)
    ELSE DecAt(Zeros(Max(0, 0 - x - Len(ip))) \o ip \o fp, Max(0, Len(ip) + x))

\* the digit of d at position j, zero outside d
At(d, j) == IF j >= 1 /\ j <= Len(d) THEN d[j] ELSE 0

\* twice and half of a number written as digits, digit by digit: the result
\* has one more digit (in front when doubling, at the end when halving)
Dbl(v) ==
    DecAt([i \in 1..(Len(v.ip) + Len(v.fp) + 1) |->
              (2 * At(v.ip \o v.fp, i - 1)
                 + (IF At(v.ip \o v.fp, i) >= 5 THEN 1 ELSE 0)) % 10],
          Len(v.ip) + 1)
Hlv(v) ==
    DecAt([i \in 1..(Len(v.ip) + Len(v.fp) + 1) |->
              (At(v.ip \o v.fp, i) + 10 * (At(v.ip \o v.fp, i - 1) % 2)) \div 2],
          Len(v.ip))

IsZeroDec(v) == v.ip = <<>> /\ v.fp = <<>>

\* v times 2^k, by halves of k; zero stays zero
RECURSIVE Pow2Mul(_, _)
Pow2Mul(v, k) ==
    IF k = 0 THEN v
    ELSE IF k = 1 THEN Dbl(v)
    ELSE IF k = 0 - 1 THEN Hlv(v)
    ELSE LET w == Pow2Mul(v, k \div 2) IN
         IF IsZeroDec(w) THEN w ELSE Pow2Mul(w, k - k \div 2)

\* a >= b for naturals written as digits without leading zeros
GeqNat(a, b) ==
    \/ Len(a) > Len(b)
    \/ /\ Len(a) = Len(b)
       /\ \/ a = b
          \/ \E i \in DOMAIN a : a[i] > b[i] /\ \A j \in 1..(i - 1) : a[j] = b[j]

\* digits plus one, with carry over the nines at the end
AddOne(d) ==
    LET t == TrailCount(In(d, {9})) IN
    IF t = Len(d) THEN <<1>> \o Zeros(t)
    ELSE [i \in 1..Len(d) |->
             IF i < Len(d) - t THEN d[i] ELSE IF i = Len(d) - t THEN d[i] + 1 ELSE 0]

MantissaBits == 52
MinExponent == 1074
MaxExponent == 971
Pow2_52 == <<4,5,0,3,5,9,9,6,2,7,3,7,0,4,9,6>>
Pow2_53 == <<9,0,0,7,1,9,9,2,5,4,7,4,0,9,9,2>>

\* the power of ten of the first non-zero digit of ip.fp
Adj(ip, fp) == Len(ip) - (LeadCount(In(ip \o fp, {0})) + 1)

\* the power of two that brings a number of decimal exponent adj below 2^53
\* and not below the subnormal range: 332193 / 100000 is more than log2(10)
FirstShift(adj) ==
    LET k == MantissaBits - (((adj + 1) * 332193) \div 100000 + 2) IN
    IF k > MinExponent THEN MinExponent ELSE k

\* double w until its integer part has 53 bits or the exponent reaches the
\* subnormal range
RECURSIVE Normalize(_, _)
Normalize(w, k) ==
    IF k < MinExponent /\ ~GeqNat(w.ip, Pow2_52) THEN Normalize(Dbl(w), k + 1)
    ELSE [w |-> w, k |-> k]

\* m0.f rounded to an integer: up when above the half, or at the half and
\* m0 odd; f has no zeros at its end
RoundHalfEven(m0, f) ==
    IF /\ f # <<>>
       /\ \/ f[1] > 5
          \/ f[1] = 5 /\ Len(f) > 1
          \/ f[1] = 5 /\ Len(f) = 1 /\ m0 # <<>> /\ m0[Len(m0)] % 2 = 1
    THEN AddOne(m0) ELSE m0

\* the float m / 2^k, inf when it is beyond the largest double
Scaled(neg, m, k) ==
    IF k < 0 - MaxExponent \/ (k = 0 - MaxExponent /\ m = Pow2_53)
    THEN Inf(neg)
    ELSE [k |-> "fin", neg |-> neg] @@ Pow2Mul(Dec(m, <<>>), 0 - k)

\* nm.w / 2^nm.k with nm.w rounded to an integer
Rounded(neg, nm) == Scaled(neg, RoundHalfEven(nm.w.ip, nm.w.fp), nm.k)

\* the double nearest to the decimal ip.fp times 10^x, as a float value
RoundToDouble(neg, ip, fp, x) ==
    LET adj == Adj(ip, fp) + x IN
    IF AllZero(ip \o fp) THEN Num("fin", neg, <<>>, <<>>)
    ELSE IF adj >= 310 THEN Inf(neg)
    ELSE IF adj <= 0 - 326 THEN Num("fin", neg, <<>>, <<>>)
    ELSE Rounded(neg, Normalize(Pow2Mul(Scale(ip, fp, x), FirstShift(adj)),
                                FirstShift(adj)))

Negative(s) == s # <<>> /\ Head(s) = Minus
Unsigned(s) == IF s # <<>> /\ Head(s) \in {Ord("+"), Minus} THEN Tail(s) ELSE s

\* the exponent part (after the e): an optional sign and a digit group
ExponentOk(e) == DigitRunOk(Unsigned(e))

MaxExponentDigits == 9

\* the exponent; one too long for the arithmetic is as good as the largest
ExponentVal(e) ==
    LET ds == DropLeadingZeros(ToDigits(Unsigned(e))) IN
    (IF Negative(e) THEN 0 - 1 ELSE 1)
        * (IF Len(ds) > MaxExponentDigits THEN 999999999 ELSE DigitsToInt(ds))

\* the part of s before position p and the part after it; p = 0: all, none
Before(s, p) == IF p = 0 THEN s ELSE SubSeq(s, 1, p - 1)
After(s, p) == IF p = 0 THEN <<>> ELSE SubSeq(s, p + 1, Len(s))

IntPart(m) == Before(m, FirstIn(m, {Dot}))
FracPart(m) == After(m, FirstIn(m, {Dot}))

\* the mantissa: digits, digits., digits.digits or .digits
MantissaOk(m) ==
    /\ IntPart(m) # <<>> \/ FracPart(m) # <<>>
    /\ IntPart(m) = <<>> \/ DigitRunOk(IntPart(m))
    /\ FracPart(m) = <<>> \/ DigitRunOk(FracPart(m))

\* float() trims the white space it knows, which is not all that strip knows
FloatStrip(s) ==
    SubSeq(s, LeadCount(In(s, FloatSpaceChars)) + 1,
           Len(s) - TrailCount(In(s, FloatSpaceChars)))

\* a mantissa m and, when hasExp, an exponent e
ParseDecimal(neg, m, e, hasExp) ==
    IF MantissaOk(m) /\ (~hasExp \/ ExponentOk(e))
    THEN Ok(PyNum(RoundToDouble(neg, ToDigits(IntPart(m)), ToDigits(FracPart(m)),
                                IF hasExp THEN ExponentVal(e) ELSE 0)))
    ELSE Raise("ValueError", "could not convert string to float")

\* a literal without its sign: one of the words, or a decimal
ParseUnsigned(neg, body) ==
    LET epos == FirstIn(body, {Ord("e"), Ord("E")}) IN
    IF Lower(body) = Str(<<"n","a","n">>) THEN Ok(PyNum(NaN))
    ELSE IF Lower(body) \in {Str(<<"i","n","f">>), Str(<<"i","n","f","i","n","i","t","y">>)}
    THEN Ok(PyNum(Inf(neg)))
    ELSE ParseDecimal(neg, Before(body, epos), After(body, epos), epos # 0)

ParseFloat(s) == ParseUnsigned(Negative(FloatStrip(s)), Unsigned(FloatStrip(s)))

Float(x) ==
    CASE x.t = "none" -> Raise("TypeError", "float() argument must be a string or a real number")
      [] x.t = "num" -> Ok(x)
      [] OTHER -> ParseFloat(x.s)

\* q <= 0 as Python evaluates it: every comparison with nan is False
LeqZero(v) ==
    CASE v.k = "nan" -> FALSE
      [] v.k = "inf" -> v.neg
      [] OTHER -> v.neg \/ IsZeroNum(v)

\* the two checks validate_quantity and validate_price share; r is what
\* float() did and what names the argument in the messages
Positive(r, what) ==
    IF ~r.ok /\ r.err \in {"TypeError", "ValueError"}
    THEN Raise("ValidationError", what \o " must be a number.")
    ELSE IF LeqZero(r.val.v)
    THEN Raise("ValidationError", what \o " must be greater than zero.")
    ELSE Ok(r.val)

validate_quantity(quantity) == Positive(Float(quantity), "Quantity")

validate_price(price, required) ==
    IF required
    THEN IF price.t = "none"
         THEN Raise("ValidationError", "Price is required for LIMIT orders.")
         ELSE Positive(Float(price), "Price")
    ELSE IF price.t # "none"
         THEN Raise("ValidationError", "Price must not be provided for MARKET orders.")
         ELSE Ok(PyNone)

(***************************************************************************)
(* validate_symbol_on_exchange.  The outcome of client.exchange_info() is  *)
(* an input: it raised exc, or it returned a mapping whose "symbols" key   *)
(* (when present) lists entries; an entry may lack its "symbol" key.       *)
(***************************************************************************)
InfoOk(hasSymbols, symbols, malformed) ==
    [k |-> "ok", exc |-> "", hasSymbols |-> hasSymbols, symbols |-> symbols,
     malformed |-> malformed]
InfoRaise(exc) ==
    [k |-> "raise", exc |-> exc, hasSymbols |-> FALSE, symbols |-> {},
     malformed |-> FALSE]

validate_symbol_on_exchange_nomember(symbol, outcome) ==
    [logs |-> <<>>] @@
    (IF outcome.k = "raise"
     THEN IF IsInstance(outcome.exc, "BinanceAPIException")
          THEN RaiseFrom("ValidationError", "Unable to validate symbol with Binance.",
                         outcome.exc)
          ELSE Raise(outcome.exc, "")
     ELSE Ok(symbol))

\* outcome is what client.exchange_info does; the result carries the records
\* logged on the way.  Only BinanceAPIException is caught (line 40).
validate_symbol_on_exchange(symbol, outcome) ==
    LET fetching == <<Record("bot.validators", "DEBUG",
                             "Fetching exchange info to validate symbol: %s",
                             "", FALSE)>> IN
    IF outcome.k = "raise" /\ IsInstance(outcome.exc, "BinanceAPIException")
    THEN [logs |-> fetching \o
                   <<Record("bot.validators", "ERROR",
                            "Failed to fetch exchange info from Binance: %s",
                            outcome.exc, FALSE)>>] @@
         RaiseFrom("ValidationError", "Unable to validate symbol with Binance.",
                   outcome.exc)
    ELSE [logs |-> fetching] @@
         (IF outcome.k = "raise" THEN Raise(outcome.exc, "")
          ELSE IF outcome.hasSymbols /\ outcome.malformed
          THEN Raise("KeyError", "symbol")
          ELSE LET symbols == IF outcome.hasSymbols THEN outcome.symbols ELSE {} IN
               IF symbol.s \notin symbols
               THEN Raise("ValidationError",
                          "Symbol is not listed on Binance Futures testnet.")
               ELSE Ok(symbol))

(***************************************************************************)
(* bot/orders.py                                                           *)
(***************************************************************************)
\* the ASCII digits
DigitsToChars(d) == [i \in DOMAIN d |-> 48 + d[i]]

PriceDecimals == 8

\* the digits all with the point before the last eight
Pointed(all) ==
    DigitsToChars(SubSeq(all, 1, Len(all) - PriceDecimals)) \o Str(<<".">>)
        \o DigitsToChars(SubSeq(all, Len(all) - PriceDecimals + 1, Len(all)))

\* f"{price:.8f}": eight fractional digits, the dropped digits round to
\* nearest and an exact tie goes to the even digit
Format8(v) ==
    LET f == v.fp \o Zeros(Max(0, PriceDecimals - Len(v.fp))) IN
    CASE v.k = "nan" -> Str(<<"n","a","n">>)
      [] v.k = "inf" -> (IF v.neg THEN Str(<<"-">>) ELSE <<>>) \o Str(<<"i","n","f">>)
      [] OTHER ->
          (IF v.neg THEN Str(<<"-">>) ELSE <<>>)
              \o Pointed(RoundHalfEven(
                    (IF v.ip = <<>> THEN <<0>> ELSE v.ip) \o SubSeq(f, 1, PriceDecimals),
                    DropTrailingZeros(SubSeq(f, PriceDecimals + 1, Len(f)))))

GTC == Str(<<"G","T","C">>)

\* a response of client.new_order: a mapping m, or something that is none
Response(isMap, m) == [isMap |-> isMap, m |-> m]
RNone == [t |-> "none", s |-> "", n |-> 0]
RStr(s) == [t |-> "str", s |-> s, n |-> 0]
RInt(n) == [t |-> "int", s |-> "", n |-> n]
EmptyMap == [k \in {} |-> RNone]
NoResponse == Response(FALSE, EmptyMap)

\* what client.new_order did: raised exc, or returned resp
OrderOk(resp) == [k |-> "ok", exc |-> "", resp |-> resp]
OrderRaise(exc) == [k |-> "raise", exc |-> exc, resp |-> NoResponse]

OrderParams_alwaysprice(symbol, side, order_type, quantity, price) ==
    [timeInForce |-> PyStr(GTC),
     price |-> PyStr(IF price.t = "num" THEN Format8(price.v) ELSE Str(<<"0">>))]
        @@ [symbol |-> symbol, side |-> side, type |-> order_type,
            quantity |-> quantity]

OrderParams(symbol, side, order_type, quantity, price) ==
    LET base == [symbol |-> symbol, side |-> side, type |-> order_type,
                 quantity |-> quantity] IN
    IF order_type.s = LIMIT
    THEN [timeInForce |-> PyStr(GTC), price |-> PyStr(Format8(price.v))] @@ base
    ELSE base

PlaceRet(called, params, ok, resp, err, msg, cause, logs) ==
    [called |-> called, params |-> params, ok |-> ok, resp |-> resp,
     err |-> err, msg |-> msg, cause |-> cause, logs |-> logs]

\* lines 39-55: client.new_order(**params) and the except clauses around it,
\* tried in order; what is not an Exception meets none of them and leaves
\* place_futures_order as it is, with nothing more logged
NewOrder(params, outcome) ==
    LET Sending ==
            <<Record("bot.orders", "INFO", "Sending new order request to Binance.",
                     "", FALSE),
              Record("bot.orders", "DEBUG", "Order request params: %s", "", FALSE)>> IN
    CASE outcome.k = "ok" ->
             PlaceRet(TRUE, params, TRUE, outcome.resp, "", "", "",
                      Sending \o
                      <<Record("bot.orders", "INFO",
                               "Order successfully placed on Binance.", "", FALSE),
                        Record("bot.orders", "DEBUG", "Order response: %s", "", FALSE)>>)
      [] IsInstance(outcome.exc, "BinanceOrderException") ->
             PlaceRet(TRUE, params, FALSE, NoResponse, "RuntimeError",
                      "Order rejected by Binance", outcome.exc,
                      Sending \o
                      <<Record("bot.orders", "ERROR", "Binance order error: %s",
                               outcome.exc, FALSE)>>)
      [] IsInstance(outcome.exc, "BinanceAPIException") ->
             PlaceRet(TRUE, params, FALSE, NoResponse, "RuntimeError",
                      "Binance API error", outcome.exc,
                      Sending \o
                      <<Record("bot.orders", "ERROR", "Binance API error: %s",
                               outcome.exc, FALSE)>>)
      [] IsInstance(outcome.exc, "Exception") ->
             PlaceRet(TRUE, params, FALSE, NoResponse, "RuntimeError",
                      "Unexpected error while placing order", outcome.exc,
                      Sending \o
                      <<Record("bot.orders", "ERROR",
                               "Unexpected error while placing order.",
                               outcome.exc, TRUE)>>)
      [] OTHER ->
             PlaceRet(TRUE, params, FALSE, NoResponse, outcome.exc, "", "", Sending)

place_futures_order_leak(symbol, side, order_type, quantity, price, outcome) ==
    LET params == OrderParams(symbol, side, order_type, quantity, price) IN
    CASE outcome.k = "ok" ->
             PlaceRet(TRUE, params, TRUE, outcome.resp, "", "", "", <<>>)
      [] outcome.exc \in {"BinanceOrderException", "BinanceAPIException"} ->
             PlaceRet(TRUE, params, FALSE, NoResponse, "RuntimeError",
                      "Binance error", outcome.exc, <<>>)
      [] OTHER ->
             PlaceRet(TRUE, params, FALSE, NoResponse, outcome.exc, "", "", <<>>)

\* outcome is what client.new_order does when it is called; the format of
\* the price fails before anything is logged
place_futures_order(symbol, side, order_type, quantity, price, outcome) ==
    IF order_type.s = LIMIT /\ price.t = "none"
    THEN PlaceRet(FALSE, EmptyMap, FALSE, NoResponse, "TypeError",
                  "unsupported format string", "", <<>>)
    ELSE IF order_type.s = LIMIT /\ price.t = "str"
    THEN PlaceRet(FALSE, EmptyMap, FALSE, NoResponse, "ValueError",
                  "Unknown format code 'f'", "", <<>>)
    ELSE NewOrder(OrderParams(symbol, side, order_type, quantity, price), outcome)

\* dict.get(key): the value, or None when the key is missing
Get(m, key) == IF key \in DOMAIN m THEN m[key] ELSE RNone

RTruthy(x) ==
    CASE x.t = "none" -> FALSE
      [] x.t = "str" -> x.s # ""
      [] OTHER -> x.n # 0

Summary(orderId, status, executedQty, avgPrice) ==
    [orderId |-> orderId, status |-> status, executedQty |-> executedQty,
     avgPrice |-> avgPrice]
NoSummary == Summary(RNone, RNone, RNone, RNone)

\* line 84 is logged when a summary is returned
SummaryRet(ok, val, err) ==
    [ok |-> ok, val |-> val, err |-> err,
     logs |-> IF ok
              THEN <<Record("bot.orders", "DEBUG", "Extracted order summary: %s",
                            "", FALSE)>>
              ELSE <<>>]

extract_order_summary_nodefault(resp) ==
    SummaryRet(TRUE, Summary(Get(resp.m, "orderId"), Get(resp.m, "status"),
                             Get(resp.m, "executedQty"), Get(resp.m, "avgPrice")), "")

extract_order_summary_pricefirst(resp) ==
    LET price == Get(resp.m, "price") IN
    SummaryRet(TRUE, Summary(Get(resp.m, "orderId"), Get(resp.m, "status"),
                             Get(resp.m, "executedQty"),
                             IF RTruthy(price) THEN price ELSE RStr("0")), "")

extract_order_summary(resp) ==
    IF ~resp.isMap
    THEN SummaryRet(FALSE, NoSummary, "AttributeError")
    ELSE LET avg_price == Get(resp.m, "avgPrice")
             price == Get(resp.m, "price") IN
         SummaryRet(TRUE,
             Summary(Get(resp.m, "orderId"), Get(resp.m, "status"),
                     Get(resp.m, "executedQty"),
                     IF avg_price \in {RNone, RStr("")}
                     THEN (IF RTruthy(price) THEN price ELSE RStr("0"))
                     ELSE avg_price), "")

(***************************************************************************)
(* bot/client.py                                                           *)
(***************************************************************************)
NoClient == 0

\* lines 47-48 are logged when, and only when, a client is constructed
GetRet(ok, handle, cache, constructed, err) ==
    [ok |-> ok, handle |-> handle, cache |-> cache, constructed |-> constructed,
     err |-> err,
     logs |-> IF constructed
              THEN <<Record("bot.client", "INFO",
                            "Initializing Binance UMFutures client for TESTNET.",
                            "", FALSE),
                     Record("bot.client", "DEBUG", "Using base URL: %s", "", FALSE)>>
              ELSE <<>>]

get_client_nocache(cache, created, api_key, api_secret) ==
    IF ~Truthy(api_key) \/ ~Truthy(api_secret)
    THEN GetRet(FALSE, NoClient, cache, FALSE, "RuntimeError")
    ELSE GetRet(TRUE, created + 1, created + 1, TRUE, "")

\* cache is _client_instance, created counts the clients constructed so far,
\* api_key and api_secret are what os.getenv returns
get_client(cache, created, api_key, api_secret) ==
    IF cache # NoClient
    THEN GetRet(TRUE, cache, cache, FALSE, "")
    ELSE IF ~Truthy(api_key) \/ ~Truthy(api_secret)
    THEN GetRet(FALSE, NoClient, cache, FALSE, "RuntimeError")
    ELSE GetRet(TRUE, created + 1, created + 1, TRUE, "")

(***************************************************************************)
(* cli.py                                                                  *)
(***************************************************************************)
\* the command line as argparse sees it: each flag's value (None when the
\* flag is not given) and whether --help or an unknown flag is present
Argv(symbol, side, order_type, quantity, price, extra) ==
    [symbol |-> symbol, side |-> side, order_type |-> order_type,
     quantity |-> quantity, price |-> price, extra |-> extra]

\* the option strings of the parser
OptionStrings ==
    {Str(<<"-","h">>), Str(<<"-","-","h","e","l","p">>),
     Str(<<"-","-","s","y","m","b","o","l">>), Str(<<"-","-","s","i","d","e">>),
     Str(<<"-","-","t","y","p","e">>),
     Str(<<"-","-","q","u","a","n","t","i","t","y">>),
     Str(<<"-","-","p","r","i","c","e">>)}

StartsWith(s, p) == Len(p) <= Len(s) /\ SubSeq(s, 1, Len(p)) = p

\* argparse's pattern of a negative number, ^-\d+$|^-\d*\.\d+$, where $ also
\* matches before a final line feed
NegativeNumber(v) ==
    LET w == IF v # <<>> /\ v[Len(v)] = 10 THEN SubSeq(v, 1, Len(v) - 1) ELSE v
        b == IF w = <<>> THEN <<>> ELSE Tail(w)
        dot == Len(b) - TrailCount([i \in DOMAIN b |-> IsDigit(b[i])]) IN
    /\ w # <<>> /\ Head(w) = Minus
    /\ b # <<>> /\ IsDigit(b[Len(b)])
    /\ \/ dot = 0
       \/ b[dot] = Dot /\ \A i \in 1..(dot - 1) : IsDigit(b[i])

\* whether argparse reads the argument v as an option and not as the value
\* of the flag before it
OptionLike(v) ==
    LET eq == FirstIn(v, {Ord("=")})
        head == IF eq = 0 THEN v ELSE SubSeq(v, 1, eq - 1) IN
    IF v = <<>> \/ Head(v) # Minus THEN FALSE
    ELSE IF v \in OptionStrings THEN TRUE
    ELSE IF Len(v) = 1 THEN FALSE
    ELSE IF eq # 0 /\ head \in OptionStrings THEN TRUE
    ELSE IF v[2] = Minus /\ \E o \in OptionStrings : StartsWith(o, head) THEN TRUE
    ELSE IF v[2] # Minus /\ \E o \in OptionStrings : o = SubSeq(v, 1, 2) \/ StartsWith(o, v)
    THEN TRUE
    ELSE IF NegativeNumber(v) THEN FALSE
    ELSE IF \E i \in DOMAIN v : v[i] = 32 THEN FALSE
    ELSE TRUE

\* whether v abbreviates more than one option: argparse reports that when
\* it first reads the command line, before it acts on any flag
Ambiguous(v) ==
    LET eq == FirstIn(v, {Ord("=")})
        head == IF eq = 0 THEN v ELSE SubSeq(v, 1, eq - 1) IN
    /\ Len(v) > 2 /\ v[1] = Minus /\ v[2] = Minus
    /\ v \notin OptionStrings /\ head \notin OptionStrings
    /\ Cardinality({o \in OptionStrings : StartsWith(o, head)}) > 1

\* argparse leaves through SystemExit: 0 after --help, 2 after an error.  The
\* extra flag, when there is one, comes first on the command line.  A flag
\* whose value reads as an option is a flag without its value: an error.
parse_args(a) ==
    IF \E f \in {"symbol", "side", "order_type", "quantity", "price"} :
           a[f].t = "str" /\ Ambiguous(a[f].s)
    THEN [ok |-> FALSE, err |-> "SystemExit", code |-> 2]
    ELSE IF a.extra = "help" THEN [ok |-> FALSE, err |-> "SystemExit", code |-> 0]
    ELSE IF \/ a.extra = "unknown"
            \/ \E f \in {"symbol", "side", "order_type", "quantity"} : a[f].t = "none"
            \/ \E f \in {"symbol", "side", "order_type", "quantity", "price"} :
                   a[f].t = "str" /\ OptionLike(a[f].s)
    THEN [ok |-> FALSE, err |-> "SystemExit", code |-> 2]
    ELSE [ok |-> TRUE, err |-> "", code |-> 0]

Locals(symbol, side, order_type, quantity, price, client) ==
    [symbol |-> symbol, side |-> side, order_type |-> order_type,
     quantity |-> quantity, price |-> price, client |-> client]
NoLocals == Locals(PyNone, PyNone, PyNone, PyNone, PyNone, NoClient)

\* lines 71-76 of main: the five local validators, in order; the first
\* failure ends the sequence
Validated(symbol, side, order_type, quantity, price) ==
    IF ~symbol.ok THEN [ok |-> FALSE, exc |-> symbol, locals |-> NoLocals]
    ELSE IF ~side.ok THEN [ok |-> FALSE, exc |-> side, locals |-> NoLocals]
    ELSE IF ~order_type.ok THEN [ok |-> FALSE, exc |-> order_type, locals |-> NoLocals]
    ELSE IF ~quantity.ok THEN [ok |-> FALSE, exc |-> quantity, locals |-> NoLocals]
    ELSE IF ~price.ok THEN [ok |-> FALSE, exc |-> price, locals |-> NoLocals]
    ELSE [ok |-> TRUE, exc |-> Ok(PyNone),
          locals |-> Locals(symbol.val, side.val, order_type.val, quantity.val,
                            price.val, NoClient)]

ValidateInputs(a) ==
    Validated(validate_symbol_format(a.symbol), validate_side(a.side),
              validate_order_type(a.order_type), validate_quantity(a.quantity),
              validate_price(a.price, validate_order_type(a.order_type).val.s = LIMIT))

Ret(how, code, exc) == [how |-> how, code |-> code, exc |-> exc]
Running == Ret("running", 0, "")
\* a line that print or argparse writes to stderr: its prefix and the
\* exception it reports
Stderr(prefix, err) ==
    [name |-> "sys.stderr", level |-> "", msg |-> prefix, exc |-> err, trace |-> FALSE]

\* the except clauses of main, tried in order: what is logged (by the logger
\* of cli.py, whose name is the module's), what is printed and how main ends
MainExcept_swapped(logger, err, code) ==
    IF ~IsInstance(err, "Exception")
    THEN [logs |-> <<>>, printed |-> <<>>, ret |-> Ret("raise", code, err)]
    ELSE IF IsInstance(err, "RuntimeError")
    THEN [logs |-> <<Record(logger, "ERROR", "Validation error: %s", err, FALSE)>>,
          printed |-> <<Stderr("Input error:", err)>>, ret |-> Ret("return", 1, "")]
    ELSE [logs |-> <<Record(logger, "ERROR", "Runtime error: %s", err, FALSE)>>,
          printed |-> <<Stderr("Error:", err)>>, ret |-> Ret("return", 1, "")]

\* an exception that is not an Exception meets no clause: main logs and
\* prints nothing and ends by raising it (the usage line of a rejected
\* command line is argparse's own)
MainExcept(logger, err, code) ==
    IF IsInstance(err, "ValidationError")
    THEN [logs |-> <<Record(logger, "ERROR", "Validation error: %s", err, FALSE)>>,
          printed |-> <<Stderr("Input error:", err)>>, ret |-> Ret("return", 1, "")]
    ELSE IF IsInstance(err, "RuntimeError")
    THEN [logs |-> <<Record(logger, "ERROR", "Runtime error: %s", err, FALSE)>>,
          printed |-> <<Stderr("Error:", err)>>, ret |-> Ret("return", 1, "")]
    ELSE IF IsInstance(err, "Exception")
    THEN [logs |-> <<Record(logger, "ERROR", "Unexpected unhandled exception.",
                            err, TRUE)>>,
          printed |-> <<Stderr("Unexpected error:", err)>>,
          ret |-> Ret("return", 1, "")]
    ELSE [logs |-> <<>>,
          printed |-> IF err = "SystemExit" /\ code = 2
                      THEN <<Stderr("usage:", err)>> ELSE <<>>,
          ret |-> Ret("raise", code, err)]

Call(fn, client, params) == [fn |-> fn, client |-> client, params |-> params]

NoInfo == [called |-> FALSE, outcome |-> InfoRaise("")]
NoOrder == [called |-> FALSE, outcome |-> OrderRaise("")]
NoPlace == PlaceRet(FALSE, EmptyMap, FALSE, NoResponse, "", "", "", <<>>)
NoStdout == [printed |-> FALSE, summary |-> NoSummary]

\* logging_config.setup_logging: returns at once when the root logger has
\* handlers; otherwise it opens the log file and installs the file and the
\* console handler.  opened is "" when the file opens, and the OSError that
\* RotatingFileHandler raises otherwise: then no handler is installed.
\* configured is whether the root logger has handlers afterwards.
setup_logging(configured, opened) ==
    IF configured \/ opened = ""
    THEN [ok |-> TRUE, configured |-> TRUE, err |-> ""]
    ELSE [ok |-> FALSE, configured |-> FALSE, err |-> opened]

(***************************************************************************)
(* Inputs.                                                                 *)
(***************************************************************************)
Fill(c, n) == [i \in 1..n |-> c]
SeqsUpTo(S, n) == UNION {[1..k -> S] : k \in 0..n}

BTCUSDT == Str(<<"B","T","C","U","S","D","T">>)
ETHUSDT == Str(<<"E","T","H","U","S","D","T">>)

\* a Z 7, blank, hyphen, sharp s, e acute, no-break space
SymChars == {97, 90, 55, 32, 45, 223, 233, 160}
\* tab, line feed, vertical tab, form feed, carriage return, file separator,
\* next line, superscript two, micro sign, y diaeresis, dotless i,
\* Arabic-Indic digit three, combining acute, em space, ideographic space,
\* the ligature ff, full-width a, underscore
SymExtraChars == {9, 10, 11, 12, 13, 28, 133, 178, 181, 255, 305, 1635, 769,
                  8195, 12288, 64256, 65345, 95}
SymbolInputs ==
    {PyStr(Fill(32, l) \o Fill(98, n) \o m \o Fill(32, r)) :
        l \in 0..MaxPad, r \in 0..MaxPad, n \in 0..MaxBody,
        m \in SeqsUpTo(SymChars, MaxMid)}
    \cup {PyStr(Fill(98, 5) \o <<c>>) : c \in SymExtraChars}
    \cup {PyStr(<<c>> \o Fill(98, 6) \o <<c>>) : c \in SymExtraChars}
    \cup {PyNone, PyNum(Zero), PyNum(Num("fin", FALSE, <<1, 2, 3>>, <<>>))}

NumChars == {Ord(c) : c \in {"0", "1", "5", ".", "-", " ", "e"}}
NumberStrings ==
    SeqsUpTo(NumChars, MaxNumLen)
    \cup { Str(<<"0",".","0","0","1">>), Str(<<"1","0",".","5">>), Str(<<"-","5">>),
           Str(<<"1","0","0",".","1","2","3","4","5","6","7","8","9">>),
           Str(<<"n","a","n">>), Str(<<"N","a","N">>), Str(<<"-","n","a","n">>),
           Str(<<"i","n","f">>), Str(<<"-","i","n","f">>),
           Str(<<"I","n","f","i","n","i","t","y">>), Str(<<"a","b","c">>),
           Str(<<"+","2">>), Str(<<"1","_","0">>), Str(<<"1","_">>), Str(<<"1","e","-","3">>),
           Str(<<" ","2","."," ">>), Str(<<"1",".","2",".","3">>), Str(<<"0","x","1">>),
           Str(<<"1","e","-","4","0","0">>), Str(<<"1","e","4","0","0">>),
           Str(<<"-","1","e","4","0","0">>), Str(<<"\r","1">>), <<49, 160>>, <<49, 28>>,
           <<1635>>, <<1633, 46, 1637>>, <<65297, 48>>, <<178>>,
           Str(<<"0",".","1">>), Str(<<"1","e","2","3">>),
           Str(<<"1","0","0",".","1","2","3","4","5","6","7","8","5">>),
           Str(<<"0",".","0","0","0","0","0","0","0","0","5">>),
           Str(<<"0",".","0","0","0","0","0","0","0","1","5">>),
           Str(<<"9","9","9","9","9",".","9","9","9","9","9","9","9","9","5">>),
           Str(<<"9","0","0","7","1","9","9","2","5","4","7","4","0","9","9","3">>),
           Str(<<"1",".","7","9","7","6","9","3","1","3","4","8","6","2","3","1","5","7","e","3","0","8">>),
           Str(<<"1",".","7","9","7","6","9","3","1","3","4","8","6","2","3","1","5","9","e","3","0","8">>),
           Str(<<"5","e","-","3","2","4">>), Str(<<"2","e","-","3","2","4">>),
           Str(<<"3","e","-","3","2","4">>), Str(<<"1","e","9","9","9","9","9","9","9","9","9","9">>),
           Str(<<"0","e","9","9","9","9","9","9","9","9","9","9">>) }
NumberInputs ==
    {PyStr(x) : x \in NumberStrings}
    \cup {PyNone, PyNum(Zero), PyNum(Num("fin", TRUE, <<1>>, <<>>)),
          PyNum(Num("fin", FALSE, <<1, 0>>, <<5>>)),
          PyNum(Num("fin", TRUE, <<5>>, <<>>)),
          PyNum(Num("fin", FALSE, <<1, 0, 0>>, <<>>)), PyNum(NaN)}

ResponseValues ==
    [orderId |-> {RInt(1)}, status |-> {RStr("FILLED")}, executedQty |-> {RStr("1")},
     avgPrice |-> {RNone, RStr(""), RStr("42000.5"), RInt(0)},
     price |-> {RNone, RStr(""), RStr("41000"), RInt(0)}]
ResponseKeys == DOMAIN ResponseValues
ResponseMaps ==
    UNION {{m \in [D -> UNION {ResponseValues[k] : k \in D}] :
               \A k \in D : m[k] \in ResponseValues[k]} : D \in SUBSET ResponseKeys}
Responses == {Response(TRUE, m) : m \in ResponseMaps}

\* the command lines, environments and remote outcomes main is run on
ArgvSet ==
    {Argv(sy, si, ty, q, p, "") :
        sy \in {PyStr(Str(<<"b","t","c","u","s","d","t">>)), PyStr(Str(<<" ","E","T","H","U","S","D","T"," ">>)), PyStr(Str(<<"b","t","c">>))},
        si \in {PyStr(Str(<<"b","u","y">>)), PyStr(Str(<<"h","o","l","d">>))},
        ty \in {PyStr(Str(<<"m","a","r","k","e","t">>)), PyStr(Str(<<" ","L","I","M","I","T"," ">>)), PyStr(Str(<<"s","t","o","p">>))},
        q \in {PyStr(Str(<<"0",".","0","0","1">>)), PyStr(Str(<<"0">>)), PyStr(Str(<<"n","a","n">>)), PyStr(Str(<<"a","b","c">>))},
        p \in {PyNone, PyStr(Str(<<"1","0","0",".","1","2","3","4","5","6","7","8","9">>)), PyStr(Str(<<"-","5">>)), PyStr(Str(<<"n","a","n">>))}}
    \cup {Argv(PyStr(Str(<<"b","t","c","u","s","d","t">>)), si, PyStr(Str(<<"m","a","r","k","e","t">>)),
               PyStr(Str(<<"0",".","0","0","1">>)), PyNone, x) :
             si \in {PyNone, PyStr(Str(<<"b","u","y">>))}, x \in {"", "help", "unknown"}}
    \cup {Argv(PyStr(<<160>> \o Str(<<"b","t","c","u","s","d","t">>)),
               PyStr(Str(<<"b","u","y">>)), PyStr(Str(<<"l","i","m","i","t">>)),
               PyStr(Str(<<"0",".","0","0","1","\r">>)), PyStr(p), "") :
             p \in {Str(<<"-","i","n","f">>), Str(<<"1","e","4","0","0">>),
                    Str(<<"1","0","0",".","1","2","3","4","5","6","7","8","5">>)}}

\* what opening bot.log does: "" when it opens
LogFileOutcomes == {"", "IsADirectoryError", "PermissionError"}

CredValues == {PyNone, PyStr(<<>>), PyStr(Str(<<"k">>))}

\* what the remote calls do: they return, or raise an exception of the
\* client library, of the transport or of the interpreter, or the
\* KeyboardInterrupt of a user who stops the program during the call
InfoOutcomes ==
    {InfoOk(TRUE, l, FALSE) : l \in {{}, {BTCUSDT}, {BTCUSDT, ETHUSDT}}}
    \cup {InfoOk(FALSE, {}, FALSE), InfoOk(TRUE, {BTCUSDT}, TRUE),
          InfoRaise("BinanceAPIException"), InfoRaise("ConnectionError"),
          InfoRaise("NotImplementedError"), InfoRaise("KeyboardInterrupt")}

MainResponses ==
    {Response(TRUE, EmptyMap),
     Response(TRUE, [orderId |-> RInt(1), status |-> RStr("FILLED"),
                     executedQty |-> RStr("1"), avgPrice |-> RStr("42000.5")]),
     Response(TRUE, [orderId |-> RInt(1), status |-> RStr("NEW"),
                     executedQty |-> RStr("0"), avgPrice |-> RStr(""),
                     price |-> RStr("41000")]),
     NoResponse}
OrderOutcomes ==
    {OrderOk(r) : r \in MainResponses}
    \cup {OrderRaise("BinanceOrderException"), OrderRaise("BinanceAPIException"),
          OrderRaise("ConnectionError"), OrderRaise("KeyboardInterrupt")}

(***************************************************************************)
(* One run of main after another in one process.                           *)
(***************************************************************************)
InitMain ==
    /\ mode = "main" /\ pc = "setup_logging"
    /\ argv \in ArgvSet
    /\ runs = 1
    /\ moduleName \in {"__main__", "cli"}
    /\ loggingConfigured = FALSE
    /\ client_instance = NoClient /\ constructCount = 0 /\ getLog = <<>>
    /\ locals = NoLocals /\ calls = <<>>
    /\ infoOutcome = NoInfo /\ orderOutcome = NoOrder /\ placeResult = NoPlace
    /\ stdout = NoStdout /\ stderr = <<>> /\ logFile = <<>> /\ ret = Running
    /\ fin = PyNone /\ fout = Ok(PyNone) /\ fout2 = Ok(PyNone)

\* the handlers setup_logging installed take the records: the file handler
\* all of them, the console handler, which writes to stderr, those it passes
Log(records) ==
    /\ logFile' = logFile \o records
    /\ stderr' = stderr \o Console(records)

\* a call that logged logs raised err: the exception reaches the except
\* clauses of main (or leaves main)
Fail(logs, err, code) ==
    /\ logFile' = logFile \o logs \o MainExcept(moduleName, err, code).logs
    /\ stderr' = stderr \o Console(logs \o MainExcept(moduleName, err, code).logs)
                        \o MainExcept(moduleName, err, code).printed
    /\ ret' = MainExcept(moduleName, err, code).ret
    /\ pc' = "done"

\* lines 64-65, before the try block: an error of setup_logging leaves main
SetupLogging ==
    /\ mode = "main" /\ pc = "setup_logging"
    /\ \E opened \in LogFileOutcomes :
        LET r == setup_logging(loggingConfigured, opened) IN
        /\ loggingConfigured' = r.configured
        /\ IF r.ok
           THEN /\ Log(<<Record(moduleName, "INFO",
                                "Starting Binance Futures Testnet Trading Bot CLI.",
                                "", FALSE)>>)
                /\ pc' = "parse_args"
                /\ UNCHANGED ret
           ELSE /\ ret' = Ret("raise", 1, r.err)
                /\ pc' = "done"
                /\ UNCHANGED <<stderr, logFile>>
    /\ UNCHANGED <<mode, moduleName, argv, runs, client_instance,
                   constructCount, getLog, locals, calls, infoOutcome,
                   orderOutcome, placeResult, stdout, fin, fout, fout2>>

ParseArgs ==
    /\ mode = "main" /\ pc = "parse_args"
    /\ LET r == parse_args(argv) IN
       IF r.ok THEN pc' = "validate" /\ UNCHANGED <<stderr, logFile, ret>>
       ELSE Fail(<<>>, r.err, r.code)
    /\ UNCHANGED <<mode, moduleName, argv, runs, loggingConfigured,
                   client_instance, constructCount, getLog, locals, calls,
                   infoOutcome, orderOutcome, placeResult, stdout, fin, fout,
                   fout2>>

Validate ==
    /\ mode = "main" /\ pc = "validate"
    /\ LET r == ValidateInputs(argv) IN
       IF r.ok
       THEN pc' = "get_client" /\ locals' = r.locals /\ UNCHANGED <<stderr, logFile, ret>>
       ELSE Fail(<<>>, r.exc.err, 1) /\ UNCHANGED locals
    /\ UNCHANGED <<mode, moduleName, argv, runs, loggingConfigured,
                   client_instance, constructCount, getLog, calls,
                   infoOutcome, orderOutcome, placeResult, stdout, fin, fout,
                   fout2>>

GetClient ==
    /\ mode = "main" /\ pc = "get_client"
    /\ \E api_key \in CredValues, api_secret \in CredValues :
        LET r == get_client(client_instance, constructCount, api_key, api_secret) IN
        /\ client_instance' = r.cache
        /\ constructCount' = IF r.constructed THEN constructCount + 1 ELSE constructCount
        /\ getLog' = Append(getLog,
               [before |-> client_instance,
                credsOk |-> Truthy(api_key) /\ Truthy(api_secret),
                ok |-> r.ok, handle |-> r.handle, constructed |-> r.constructed,
                after |-> r.cache])
        /\ IF r.ok
           THEN /\ pc' = "check_symbol"
                /\ locals' = [locals EXCEPT !.client = r.handle]
                /\ Log(r.logs)
                /\ UNCHANGED ret
           ELSE Fail(r.logs, r.err, 1) /\ UNCHANGED locals
    /\ UNCHANGED <<mode, moduleName, argv, runs, loggingConfigured, calls,
                   infoOutcome, orderOutcome, placeResult, stdout, fin, fout,
                   fout2>>

CheckSymbol ==
    /\ mode = "main" /\ pc = "check_symbol"
    /\ \E outcome \in InfoOutcomes :
        LET r == validate_symbol_on_exchange(locals.symbol, outcome) IN
        /\ calls' = Append(calls, Call("exchange_info", locals.client, EmptyMap))
        /\ infoOutcome' = [called |-> TRUE, outcome |-> outcome]
        /\ IF r.ok
           THEN /\ pc' = "place_order"
                /\ locals' = [locals EXCEPT !.symbol = r.val]
                /\ Log(r.logs)
                /\ UNCHANGED ret
           ELSE Fail(r.logs, r.err, 1) /\ UNCHANGED locals
    /\ UNCHANGED <<mode, moduleName, argv, runs, loggingConfigured,
                   client_instance, constructCount, getLog, orderOutcome,
                   placeResult, stdout, fin, fout, fout2>>

PlaceOrder ==
    /\ mode = "main" /\ pc = "place_order"
    /\ \E outcome \in OrderOutcomes :
        LET r == place_futures_order(locals.symbol, locals.side, locals.order_type,
                                     locals.quantity, locals.price, outcome) IN
        /\ calls' = IF r.called
                    THEN Append(calls, Call("new_order", locals.client, r.params))
                    ELSE calls
        /\ orderOutcome' = [called |-> r.called, outcome |-> outcome]
        /\ placeResult' = r
        /\ IF r.ok THEN pc' = "extract" /\ Log(r.logs) /\ UNCHANGED ret
           ELSE Fail(r.logs, r.err, 1)
    /\ UNCHANGED <<mode, moduleName, argv, runs, loggingConfigured,
                   client_instance, constructCount, getLog, locals,
                   infoOutcome, stdout, fin, fout, fout2>>

ExtractAndPrint ==
    /\ mode = "main" /\ pc = "extract"
    /\ LET r == extract_order_summary(placeResult.resp) IN
       IF r.ok
       THEN /\ stdout' = [printed |-> TRUE, summary |-> r.val]
            /\ ret' = Ret("return", 0, "")
            /\ Log(r.logs \o
                   <<Record(moduleName, "INFO", "CLI finished successfully.",
                            "", FALSE)>>)
            /\ pc' = "done"
       ELSE Fail(r.logs, r.err, 1) /\ UNCHANGED stdout
    /\ UNCHANGED <<mode, moduleName, argv, runs, loggingConfigured,
                   client_instance, constructCount, getLog, locals, calls,
                   infoOutcome, orderOutcome, placeResult, fin, fout, fout2>>

\* main is called again in the same process: by a program that imported
\* cli.py, since run as a script it calls main once (lines 122-123)
NextRun ==
    /\ mode = "main" /\ pc = "done" /\ runs < MaxRuns
    /\ moduleName # "__main__"
    /\ argv' \in ArgvSet
    /\ runs' = runs + 1
    /\ pc' = "setup_logging"
    /\ locals' = NoLocals /\ calls' = <<>>
    /\ infoOutcome' = NoInfo /\ orderOutcome' = NoOrder /\ placeResult' = NoPlace
    /\ stdout' = NoStdout /\ stderr' = <<>> /\ logFile' = <<>> /\ ret' = Running
    /\ UNCHANGED <<mode, moduleName, loggingConfigured, client_instance,
                   constructCount, getLog, fin, fout, fout2>>

Next ==
    \/ SetupLogging \/ ParseArgs \/ Validate \/ GetClient \/ CheckSymbol
    \/ PlaceOrder \/ ExtractAndPrint \/ NextRun

Spec == InitMain /\ [][Next]_vars

(***************************************************************************)
(* The pure functions applied to generated inputs.                         *)
(***************************************************************************)
IdleMain ==
    /\ argv = Argv(PyNone, PyNone, PyNone, PyNone, PyNone, "")
    /\ runs = 0
    /\ moduleName = "cli"
    /\ loggingConfigured = FALSE
    /\ client_instance = NoClient /\ constructCount = 0 /\ getLog = <<>>
    /\ locals = NoLocals /\ calls = <<>>
    /\ infoOutcome = NoInfo /\ orderOutcome = NoOrder /\ placeResult = NoPlace
    /\ stdout = NoStdout /\ stderr = <<>> /\ logFile = <<>> /\ ret = Running

InitSymbol ==
    /\ mode = "symbol" /\ pc = "start"
    /\ fin \in SymbolInputs
    /\ fout = Ok(PyNone) /\ fout2 = Ok(PyNone)
    /\ IdleMain

ValidateSymbol ==
    /\ mode = "symbol" /\ pc = "start"
    /\ fout' = validate_symbol_format(fin)
    /\ pc' = "validated"
    /\ UNCHANGED <<mode, fin, fout2, mainVars>>

\* the returned symbol is validated again
RevalidateSymbol ==
    /\ mode = "symbol" /\ pc = "validated" /\ fout.ok
    /\ fout2' = validate_symbol_format(fout.val)
    /\ pc' = "revalidated"
    /\ UNCHANGED <<mode, fin, fout, mainVars>>

NextSymbol == ValidateSymbol \/ RevalidateSymbol

SpecSymbol == InitSymbol /\ [][NextSymbol]_vars

InitNumber ==
    /\ mode = "number" /\ pc = "start"
    /\ fin \in [raw : NumberInputs, required : BOOLEAN]
    /\ fout = Ok(PyNone) /\ fout2 = Ok(PyNone)
    /\ IdleMain

ValidateQuantity ==
    /\ mode = "number" /\ pc = "start"
    /\ fout' = validate_quantity(fin.raw)
    /\ pc' = "quantity"
    /\ UNCHANGED <<mode, fin, fout2, mainVars>>

ValidatePrice ==
    /\ mode = "number" /\ pc = "quantity"
    /\ fout2' = validate_price(fin.raw, fin.required)
    /\ pc' = "price"
    /\ UNCHANGED <<mode, fin, fout, mainVars>>

NextNumber == ValidateQuantity \/ ValidatePrice

SpecNumber == InitNumber /\ [][NextNumber]_vars

InitExtract ==
    /\ mode = "extract" /\ pc = "start"
    /\ fin \in Responses
    /\ fout = SummaryRet(TRUE, NoSummary, "") /\ fout2 = Ok(PyNone)
    /\ IdleMain

ExtractSummary ==
    /\ mode = "extract" /\ pc = "start"
    /\ fout' = extract_order_summary(fin)
    /\ pc' = "extracted"
    /\ UNCHANGED <<mode, fin, fout2, mainVars>>

NextExtract == ExtractSummary

SpecExtract == InitExtract /\ [][NextExtract]_vars

(***************************************************************************)
(* Properties.                                                             *)
(***************************************************************************)
Called(fn) == \E i \in DOMAIN calls : calls[i].fn = fn

\* the lines of stderr that print or argparse wrote, and those the console
\* handler wrote
Printed == SelectSeq(stderr, LAMBDA l : l.name = "sys.stderr")
Logged == SelectSeq(stderr, LAMBDA l : l.name # "sys.stderr")

\* main printed exactly one line, with this prefix
PrintedOnly(prefix) == Len(Printed) = 1 /\ Printed[1].msg = prefix

\* C1: a stage runs only if every earlier stage succeeded: exchange_info is
\* called only after argument parsing, the five local validators and
\* get_client succeeded, and new_order is called only after an earlier
\* exchange_info call that returned and listed the normalized symbol.
C1_StagesInOrder ==
    mode = "main" =>
        \A i \in DOMAIN calls :
            /\ calls[i].fn = "exchange_info" =>
                   /\ parse_args(argv).ok
                   /\ validate_symbol_format(argv.symbol).ok
                   /\ validate_side(argv.side).ok
                   /\ validate_order_type(argv.order_type).ok
                   /\ validate_quantity(argv.quantity).ok
                   /\ validate_price(argv.price,
                          validate_order_type(argv.order_type).val.s = LIMIT).ok
                   /\ calls[i].client # NoClient
            /\ calls[i].fn = "new_order" =>
                   /\ \E j \in 1..(i - 1) : calls[j].fn = "exchange_info"
                   /\ infoOutcome.called
                   /\ infoOutcome.outcome.k = "ok"
                   /\ infoOutcome.outcome.hasSymbols
                   /\ validate_symbol_format(argv.symbol).val.s
                          \in infoOutcome.outcome.symbols

\* an order was submitted after the metadata check
C1_Witness == mode = "main" /\ Len(calls) = 2 /\ calls[2].fn = "new_order"

\* C2: the payload given to new_order carries price and timeInForce = GTC
\* exactly when the normalized order type is LIMIT; a MARKET run that
\* reaches new_order had no --price, a LIMIT run that reaches it had one.
C2_PriceIffLimit ==
    mode = "main" =>
        \A i \in DOMAIN calls : calls[i].fn = "new_order" =>
            LET p == calls[i].params
                ty == Upper(Strip(argv.order_type.s)) IN
            /\ ty \in {MARKET, LIMIT}
            /\ "price" \in DOMAIN p <=> ty = LIMIT
            /\ "timeInForce" \in DOMAIN p <=> ty = LIMIT
            /\ ty = LIMIT => p.timeInForce = PyStr(GTC) /\ argv.price.t # "none"
            /\ ty = MARKET => argv.price.t = "none"

\* a LIMIT order was submitted, price formatted with eight decimals
C2_Witness ==
    /\ mode = "main" /\ Called("new_order")
    /\ "price" \in DOMAIN calls[2].params
    /\ calls[2].params.price =
           PyStr(Str(<<"1","0","0",".","1","2","3","4","5","6","7","9">>))

\* C3: whenever exchange_info fails, whatever the failure, the run prints
\* "Input error:", returns 1 and never calls new_order.
C3_MetadataFailureIsInputError ==
    (mode = "main" /\ infoOutcome.called /\ infoOutcome.outcome.k = "raise") =>
        /\ pc = "done"
        /\ PrintedOnly("Input error:")
        /\ ret = Ret("return", 1, "")
        /\ ~Called("new_order")

\* C4 as stated: when new_order raises, whatever it raises,
\* place_futures_order raises RuntimeError with the original exception as its
\* cause and returns no response; when new_order returns, its response is
\* returned unmodified.
C4_UniformSubmissionError ==
    (mode = "main" /\ orderOutcome.called) =>
        /\ orderOutcome.outcome.k = "raise" =>
               /\ ~placeResult.ok
               /\ placeResult.err = "RuntimeError"
               /\ placeResult.cause = orderOutcome.outcome.exc
               /\ placeResult.resp = NoResponse
               /\ ~stdout.printed
        /\ orderOutcome.outcome.k = "ok" =>
               /\ placeResult.ok
               /\ placeResult.resp = orderOutcome.outcome.resp

\* C4 amended: when new_order raises an Exception, of whatever class,
\* place_futures_order logs it at level ERROR and raises RuntimeError with
\* the original exception as its cause, which main reports as "Error:";
\* when new_order raises what is not an Exception (KeyboardInterrupt,
\* SystemExit, ...), that exception leaves place_futures_order and main
\* unchanged, with no ERROR record and no printed line; in neither case is
\* a response returned or a summary printed.  When new_order returns, its
\* response is returned unmodified.
C4_ExceptionsWrapped ==
    (mode = "main" /\ orderOutcome.called) =>
        /\ orderOutcome.outcome.k = "raise" =>
               /\ ~placeResult.ok
               /\ placeResult.resp = NoResponse
               /\ ~stdout.printed
               /\ IF IsInstance(orderOutcome.outcome.exc, "Exception")
                  THEN /\ placeResult.err = "RuntimeError"
                       /\ placeResult.cause = orderOutcome.outcome.exc
                       /\ placeResult.logs[Len(placeResult.logs)].level = "ERROR"
                       /\ placeResult.logs[Len(placeResult.logs)].exc =
                              orderOutcome.outcome.exc
                       /\ ret = Ret("return", 1, "")
                       /\ PrintedOnly("Error:")
                  ELSE /\ placeResult.err = orderOutcome.outcome.exc
                       /\ placeResult.cause = ""
                       /\ \A i \in DOMAIN logFile : logFile[i].level # "ERROR"
                       /\ ret = Ret("raise", 1, orderOutcome.outcome.exc)
                       /\ Printed = <<>>
        /\ orderOutcome.outcome.k = "ok" =>
               /\ placeResult.ok
               /\ placeResult.resp = orderOutcome.outcome.resp

\* a transport failure of new_order came out as RuntimeError
C4_Witness ==
    /\ mode = "main" /\ orderOutcome.called
    /\ orderOutcome.outcome.exc = "ConnectionError"
    /\ placeResult.err = "RuntimeError"

\* the stages after argument parsing all succeeded
StagesOk ==
    /\ ValidateInputs(argv).ok
    /\ locals.client # NoClient
    /\ infoOutcome.called /\ infoOutcome.outcome.k = "ok"
    /\ infoOutcome.outcome.hasSymbols /\ ~infoOutcome.outcome.malformed
    /\ locals.symbol.s \in infoOutcome.outcome.symbols
    /\ orderOutcome.called /\ orderOutcome.outcome.k = "ok"
    /\ orderOutcome.outcome.resp.isMap

\* what the failed remote call raised, "" when the failure is elsewhere
Raised ==
    IF infoOutcome.called /\ infoOutcome.outcome.k = "raise"
    THEN infoOutcome.outcome.exc
    ELSE IF orderOutcome.called /\ orderOutcome.outcome.k = "raise"
    THEN orderOutcome.outcome.exc
    ELSE ""

\* a remote call raised what is not an Exception
Interrupted == Raised # "" /\ ~IsInstance(Raised, "Exception")

\* the prefix the kind of the failure calls for
ExpectedPrefix ==
    IF ~ValidateInputs(argv).ok THEN "Input error:"
    ELSE IF locals.client = NoClient THEN "Error:"
    ELSE IF ~orderOutcome.called
    THEN (IF infoOutcome.outcome.k = "raise"
          THEN (IF IsInstance(Raised, "BinanceAPIException") THEN "Input error:"
                ELSE IF IsInstance(Raised, "RuntimeError") THEN "Error:"
                ELSE "Unexpected error:")
          ELSE IF infoOutcome.outcome.hasSymbols /\ infoOutcome.outcome.malformed
          THEN "Unexpected error:"
          ELSE "Input error:")
    ELSE IF orderOutcome.outcome.k = "raise" THEN "Error:"
    ELSE "Unexpected error:"

\* C5 as stated: every run of main returns 0 or 1, 0 exactly when all stages
\* including argument parsing succeed, 1 after printing a single line with
\* the prefix of the failure's kind otherwise; nothing escapes main.
C5_ExitZeroOrOne ==
    (mode = "main" /\ pc = "done") =>
        /\ ret.how = "return"
        /\ ret.code \in {0, 1}
        /\ ret.code = 0 <=> (parse_args(argv).ok /\ StagesOk)
        /\ ret.code = 1 => PrintedOnly(ExpectedPrefix)

\* C5 amended: three kinds of run leave main by an exception instead of
\* returning.  A run in which setup_logging fails to open the log file
\* leaves through that error before anything is parsed, called or written.
\* A run whose command line argparse rejects (or that asks for --help)
\* leaves through SystemExit with code 2 (or 0), before any remote call.  A
\* run in which a remote call raises what is not an Exception leaves
\* through that exception, printing nothing.  Every other run returns 0 or
\* 1: 0 exactly when all stages succeed, and then main prints nothing to
\* stderr; 1 otherwise, and then the last two lines of stderr are the ERROR
\* record of main's logger and the only printed line, with the prefix of
\* the failure's kind.  The lines of stderr that are not printed are the
\* run's log records of level INFO and above, the first by main's logger.
C5_ExitAfterParsing ==
    (mode = "main" /\ pc = "done") =>
        IF ~loggingConfigured
        THEN /\ ret.how = "raise" /\ ret.code = 1
             /\ ret.exc \in LogFileOutcomes \ {""}
             /\ calls = <<>> /\ stderr = <<>> /\ logFile = <<>> /\ ~stdout.printed
        ELSE /\ Logged = Console(logFile)
             /\ stderr[1] = Record(moduleName, "INFO",
                                   "Starting Binance Futures Testnet Trading Bot CLI.",
                                   "", FALSE)
             /\ IF ~parse_args(argv).ok
                THEN /\ ret.how = "raise" /\ ret.exc = "SystemExit"
                     /\ ret.code = (IF argv.extra = "help" THEN 0 ELSE 2)
                     /\ calls = <<>>
                ELSE IF Interrupted
                THEN /\ ret = Ret("raise", 1, Raised)
                     /\ Printed = <<>> /\ ~stdout.printed
                ELSE /\ ret.how = "return"
                     /\ ret.code \in {0, 1}
                     /\ ret.code = 0 <=> StagesOk
                     /\ ret.code = 0 => stdout.printed /\ Printed = <<>>
                     /\ ret.code = 1 =>
                            /\ ~stdout.printed
                            /\ PrintedOnly(ExpectedPrefix)
                            /\ stderr[Len(stderr)] = Printed[1]
                            /\ stderr[Len(stderr) - 1].name = moduleName
                            /\ stderr[Len(stderr) - 1].level = "ERROR"
                            /\ stderr[Len(stderr) - 1].exc = Printed[1].exc

\* a run ended with the catch-all prefix after the stages before it succeeded
C5_Witness ==
    /\ mode = "main" /\ pc = "done" /\ ret = Ret("return", 1, "")
    /\ PrintedOnly("Unexpected error:") /\ orderOutcome.called
    /\ Len(stderr) > 3

Present(m, key) == key \in DOMAIN m
Copied(m, s, key) == s[key] = (IF Present(m, key) THEN m[key] ELSE RNone)

\* C6 as stated: avgPrice is the response's avgPrice when that key is present
\* and non-empty, otherwise the response's price when the price key is
\* present, otherwise "0"; the other three fields are copied.
C6_AvgPriceFallback ==
    (mode = "extract" /\ pc = "extracted") =>
        LET m == fin.m
            s == fout.val IN
        /\ s.avgPrice =
               (IF Present(m, "avgPrice") /\ m.avgPrice \notin {RNone, RStr("")}
                THEN m.avgPrice
                ELSE IF Present(m, "price") THEN m.price
                ELSE RStr("0"))
        /\ Copied(m, s, "orderId") /\ Copied(m, s, "status")
        /\ Copied(m, s, "executedQty")

\* C6 amended: avgPrice is the response's avgPrice when that key is present
\* and its value is neither None nor ""; otherwise the response's price when
\* the price key is present and its value is truthy (not None, not "", not
\* zero); otherwise "0"; the other three fields are copied.
C6_AvgPriceFallbackTruthy ==
    (mode = "extract" /\ pc = "extracted") =>
        LET m == fin.m
            s == fout.val IN
        /\ s.avgPrice =
               (IF Present(m, "avgPrice") /\ m.avgPrice \notin {RNone, RStr("")}
                THEN m.avgPrice
                ELSE IF /\ Present(m, "price")
                        /\ m.price \notin {RNone, RStr(""), RInt(0)}
                THEN m.price
                ELSE RStr("0"))
        /\ Copied(m, s, "orderId") /\ Copied(m, s, "status")
        /\ Copied(m, s, "executedQty")

\* an empty avgPrice fell back to a price that is present
C6_Witness ==
    /\ mode = "extract" /\ pc = "extracted"
    /\ Present(fin.m, "avgPrice") /\ fin.m.avgPrice = RStr("")
    /\ Present(fin.m, "price") /\ fout.val.avgPrice = RStr("41000")

FourKeys == {"orderId", "status", "executedQty", "avgPrice"}

\* C7 as stated: extract_order_summary never fails, and a response missing
\* all four keys gives a summary whose four fields are all None.
C7_MissingKeysAllNone ==
    (mode = "extract" /\ pc = "extracted") =>
        /\ fout.ok
        /\ DOMAIN fin.m \cap FourKeys = {} => fout.val = NoSummary

\* C7 amended: extract_order_summary never fails on a mapping, and a response
\* missing all four keys gives orderId, status and executedQty None and an
\* avgPrice that is never None: the truthy price of the response, or "0".
C7_MissingKeysDefaultPrice ==
    (mode = "extract" /\ pc = "extracted") =>
        /\ fout.ok
        /\ DOMAIN fin.m \cap FourKeys = {} =>
               /\ fout.val.orderId = RNone /\ fout.val.status = RNone
               /\ fout.val.executedQty = RNone
               /\ fout.val.avgPrice # RNone
               /\ fout.val.avgPrice =
                      (IF Present(fin.m, "price")
                          /\ fin.m.price \notin {RNone, RStr(""), RInt(0)}
                       THEN fin.m.price ELSE RStr("0"))

\* the empty response was summarised
C7_Witness ==
    /\ mode = "extract" /\ pc = "extracted" /\ fin.m = EmptyMap
    /\ fout.val = Summary(RNone, RNone, RNone, RStr("0"))

\* C8: over the get_client calls of a process the client is constructed at
\* most once; a call that finds the cache filled returns the cached handle
\* and constructs nothing, the first call with both credentials constructs
\* and caches, a call without credentials constructs nothing and leaves the
\* cache empty; both remote calls of a run use the cached handle.
C8_ClientConstructedOnce ==
    mode = "main" =>
        /\ constructCount <= 1
        /\ Cardinality({i \in DOMAIN getLog : getLog[i].constructed}) = constructCount
        /\ (client_instance # NoClient) <=> (constructCount = 1)
        /\ \A i \in DOMAIN getLog :
               LET e == getLog[i] IN
               /\ e.before # NoClient =>
                      e.ok /\ e.handle = e.before /\ ~e.constructed /\ e.after = e.before
               /\ (e.before = NoClient /\ e.credsOk) =>
                      e.ok /\ e.constructed /\ e.handle # NoClient /\ e.after = e.handle
               /\ (e.before = NoClient /\ ~e.credsOk) =>
                      ~e.ok /\ ~e.constructed /\ e.after = NoClient
               /\ i > 1 => e.before = getLog[i - 1].after
        /\ \A i \in DOMAIN calls :
               calls[i].client = client_instance /\ calls[i].client # NoClient

\* a second run got the handle the first run constructed and used it twice
C8_Witness ==
    /\ mode = "main" /\ Len(getLog) = 2
    /\ getLog[1].constructed /\ getLog[2].ok /\ ~getLog[2].credsOk
    /\ Len(calls) = 2

\* C9: validate_symbol_format raises ValidationError for an input that is
\* empty, not a string, or whose trimmed upper-cased form is shorter than 6,
\* longer than 20 or not alphanumeric; otherwise it returns the trimmed
\* upper-cased symbol, and validating that result again returns it unchanged.
C9_SymbolFormat ==
    (mode = "symbol" /\ pc \in {"validated", "revalidated"}) =>
        LET n == Upper(Strip(fin.s))
            bad == \/ fin.t # "str"
                   \/ fin.s = <<>>
                   \/ Len(n) < 6
                   \/ Len(n) > 20
                   \/ \E i \in DOMAIN n : ~IsAlnumChar(n[i]) IN
        /\ bad => ~fout.ok /\ fout.err = "ValidationError"
        /\ ~bad => fout = Ok(PyStr(n))
        /\ pc = "revalidated" => fout2 = fout /\ fout2.ok

\* a padded lower-case input of the largest accepted length was normalized
\* and validated again
C9_Witness ==
    /\ mode = "symbol" /\ pc = "revalidated"
    /\ fin.s # fout.val.s /\ Len(fout.val.s) = 20 /\ Head(fin.s) = 32
    /\ fout2 = fout

StrictlyPositive(v) ==
    \/ v.k = "inf" /\ ~v.neg
    \/ v.k = "fin" /\ ~v.neg /\ ~IsZeroNum(v)

\* C10: every value validate_quantity returns, and every value
\* validate_price returns when required, is a strictly positive number.
C10_ReturnedValuesPositive ==
    mode = "number" =>
        /\ (pc \in {"quantity", "price"} /\ fout.ok) =>
               fout.val.t = "num" /\ StrictlyPositive(fout.val.v)
        /\ (pc = "price" /\ fin.required /\ fout2.ok) =>
               fout2.val.t = "num" /\ StrictlyPositive(fout2.val.v)

====
